---- MODULE Spec2Model ----
(***************************************************************************)
(* Model of the SPIFFE client libraries (rust/spiffe-client and            *)
(* rust/spire-client): trust bundles, the bundle store, federation, the    *)
(* peer certificate verifier and the mTLS configuration.                   *)
(***************************************************************************)
EXTENDS Integers, Sequences, FiniteSets, TLC

VARIABLES
    bundles,    \* TrustBundleStore.bundles of a standalone store: HashMap<String, TrustBundle>
    fed,        \* a FederatedBundle {primary_domain, store}, or NoFed when none was constructed
    bundle,     \* a standalone TrustBundle value (the receiver of merge), or NoBundle
    verifier,   \* a SpiffeCertVerifier {trust_domain, root_certs}, or NoVerifier
    config,     \* an MtlsConfig {client_config, server_config, spiffe_id}, or NoConfig
    installed,  \* history: the document, bundle and time of the last successful install
    now,        \* Utc::now()
    op,         \* the last call made: its name, its result and what it was made with
    identity,   \* the SpiffeId last returned by SpiffeId::new or parse, or NoId
    document,   \* the X509Svid last returned by X509Svid::new and when, or NoSvid
    svid_bundle,\* WorkloadApiClient.svid_bundle: Option<SvidBundle>
    shutdown,   \* ManagedWorkloadClient.shutdown: the stop signal
    pc,         \* where the rotation task is in its loop
    app,        \* where a refresh_all called by the application itself is
    started,    \* history: the cached state when the refresh_all in flight started
    seen,       \* history: what a reader got while a refresh_all was in flight
    task_failed,\* history: both fetches of the task's last refresh_all failed
    threads,    \* the threads that call update_if_newer on the store: where each is
    lock,       \* TrustBundleStore.bundles: the RwLock, its writer if one holds it
    initial     \* history: what the store held before the threads started

\* The state of the threads that share a store
concVars == <<threads, lock, initial>>

\* The state of the identity, document and workload-client models
clientVars == <<identity, document, svid_bundle, shutdown, pc, app, started,
                seen, task_failed, concVars>>

vars == <<bundles, fed, bundle, verifier, config, installed, now, op, clientVars>>

(***************************************************************************)
(* Bounds of the model.                                                    *)
(***************************************************************************)
MaxSeq == 1
MaxTime == 1
MaxNames == 2
\* The width at which a u64 (sequence_number) is kept: it wraps at 2^SeqBits
SeqBits == 2
\* The longest certificate list add_certificate is given to extend
MaxCerts == 3
\* The number of threads that share a store
NumThreads == 2

(***************************************************************************)
(* Values.                                                                 *)
(***************************************************************************)
\* A String is the sequence of its pieces (atoms that never split or join), so
\* that prefixes, splitting and concatenation are computed; <<>> is "".
EmptyStr == <<>>
ExampleOrg == <<"example.org">>
PartnerOrg == <<"partner.org">>

UnknownOrg == <<"unknown.org">>

\* Trust domain strings.
Domains == {EmptyStr, ExampleOrg, PartnerOrg}

\* Trust domains of the SpiffeId values looked up (a SpiffeId has a non-empty one).
QueryDomains == {ExampleOrg, PartnerOrg, UnknownOrg}

\* DER blobs (Vec<u8>); <<>> is the empty Vec.
CertA == <<1, 2, 3>>
CertB == <<4, 5, 6>>
CertLists == { <<>>, <<CertA>>, <<CertB, CertA>>, <<CertA, <<>> >> }

SeqNums == 0..MaxSeq
Times == 0..MaxTime

Ok(v) == [tag |-> "Ok", val |-> v]
Err(kind, msg) == [tag |-> "Err", kind |-> kind, msg |-> msg]
Unit == "()"
None == [tag |-> "None"]
Some(v) == [tag |-> "Some", val |-> v]

NoFed == [tag |-> "NoFed"]
NoBundle == [tag |-> "NoBundle"]
NoVerifier == [tag |-> "NoVerifier"]
NoConfig == [tag |-> "NoConfig"]
NoInstall == [tag |-> "NoInstall"]
NoOp == [name |-> "none"]
NoId == [tag |-> "NoId"]
NoSvid == [tag |-> "NoSvid"]
NoCall == [tag |-> "NoCall"]
NoSeen == [tag |-> "NoSeen"]
NoThreads == [tag |-> "NoThreads"]

\* No thread shares the store
ConcIdle ==
    /\ threads = NoThreads
    /\ lock = None
    /\ initial = None

\* No identity, document or workload client was constructed
ClientIdle ==
    /\ identity = NoId
    /\ document = NoSvid
    /\ svid_bundle = None
    /\ shutdown = FALSE
    /\ pc = "none"
    /\ app = "none"
    /\ started = NoCall
    /\ seen = NoSeen
    /\ task_failed = FALSE
    /\ ConcIdle

(***************************************************************************)
(* TrustBundle (trust_bundle.rs).                                          *)
(***************************************************************************)
TrustBundle == [trust_domain : Domains, certificates : CertLists,
                sequence_number : SeqNums, updated_at : Times]

\* The bundles handed to a store: built by TrustBundle::new / with_sequence at
\* one instant (the store never reads updated_at).
IncomingBundles == {b \in TrustBundle : b.updated_at = 0}

\* TrustBundle::validate
validate(b) ==
    IF b.trust_domain = EmptyStr
    THEN Err("TrustBundleError", "Trust domain cannot be empty")
    ELSE IF b.certificates = <<>>
    THEN Err("TrustBundleError", "Trust bundle must contain at least one certificate")
    ELSE IF \E i \in 1..Len(b.certificates) : b.certificates[i] = <<>>
    THEN Err("TrustBundleError", "Certificate is empty")
    ELSE Ok(Unit)

\* TrustBundle::is_newer_than
is_newer_than_ge(self, other) == self.sequence_number >= other.sequence_number
is_newer_than(self, other) == self.sequence_number > other.sequence_number

\* TrustBundle::merge: the result and the receiver after the call
merge_unchecked(self, other) ==
    IF is_newer_than(other, self)
    THEN [ret |-> Ok(Unit),
          self |-> [self EXCEPT !.certificates = other.certificates,
                                !.sequence_number = other.sequence_number,
                                !.updated_at = other.updated_at]]
    ELSE [ret |-> Ok(Unit), self |-> self]
merge_union(self, other) ==
    IF self.trust_domain # other.trust_domain
    THEN [ret |-> Err("TrustBundleError", "Cannot merge bundles from different trust domains"),
          self |-> self]
    ELSE IF is_newer_than(other, self)
    THEN [ret |-> Ok(Unit),
          self |-> [self EXCEPT !.certificates = self.certificates \o other.certificates,
                                !.sequence_number = other.sequence_number,
                                !.updated_at = other.updated_at]]
    ELSE [ret |-> Ok(Unit), self |-> self]
merge(self, other) ==
    IF self.trust_domain # other.trust_domain
    THEN [ret |-> Err("TrustBundleError", "Cannot merge bundles from different trust domains"),
          self |-> self]
    ELSE IF is_newer_than(other, self)
    THEN [ret |-> Ok(Unit),
          self |-> [self EXCEPT !.certificates = other.certificates,
                                !.sequence_number = other.sequence_number,
                                !.updated_at = other.updated_at]]
    ELSE [ret |-> Ok(Unit), self |-> self]

\* u64::MAX, at the width of the model
U64_MAX == 2^SeqBits - 1

\* A panic unwinding out of a call
Panic(msg) == [tag |-> "Panic", msg |-> msg]

\* TrustBundle::with_sequence, called at time t
with_sequence(trust_domain, certificates, sequence_number, t) ==
    [trust_domain |-> trust_domain, certificates |-> certificates,
     sequence_number |-> sequence_number, updated_at |-> t]

\* TrustBundle::add_certificate, called at time t: the result and the receiver
\* after the call.  sequence_number += 1 on u64::MAX panics in a build with
\* overflow checks (after the push) and wraps to 0 in a build without.
add_certificate(self, cert, t, overflow_checks) ==
    IF cert = <<>>
    THEN [ret |-> Err("TrustBundleError", "Cannot add empty certificate"),
          self |-> self]
    ELSE LET pushed == [self EXCEPT !.certificates = Append(@, cert)]
         IN IF self.sequence_number = U64_MAX /\ overflow_checks
            THEN [ret |-> Panic("attempt to add with overflow"), self |-> pushed]
            ELSE [ret |-> Ok(Unit),
                  self |-> [pushed EXCEPT
                               !.sequence_number = (@ + 1) % (2^SeqBits),
                               !.updated_at = t]]

(***************************************************************************)
(* TrustBundleStore (trust_bundle.rs).  The map is a function whose domain *)
(* is the set of keys present.                                             *)
(***************************************************************************)
\* TrustBundleStore::new
EmptyMap == [d \in {} |-> NoBundle]

\* HashMap::insert
insert(m, k, v) == [x \in (DOMAIN m) \cup {k} |-> IF x = k THEN v ELSE m[x]]

\* HashMap::remove
remove(m, k) == [x \in (DOMAIN m) \ {k} |-> m[x]]

\* No store, federation, bundle, verifier or mTLS configuration was constructed
StoreIdle ==
    /\ bundles = EmptyMap
    /\ fed = NoFed
    /\ bundle = NoBundle
    /\ verifier = NoVerifier
    /\ config = NoConfig
    /\ installed = NoInstall

\* TrustBundleStore::get_bundle
get_bundle(m, trust_domain) ==
    IF trust_domain \in DOMAIN m THEN Some(m[trust_domain]) ELSE None

\* TrustBundleStore::domains
domains(m) == DOMAIN m

\* TrustBundleStore::set_bundle: the result and the map after the call
set_bundle_insert_first(m, b) ==
    [ret |-> validate(b), bundles |-> insert(m, b.trust_domain, b)]
set_bundle(m, b) ==
    IF validate(b).tag = "Err"
    THEN [ret |-> validate(b), bundles |-> m]
    ELSE [ret |-> Ok(Unit), bundles |-> insert(m, b.trust_domain, b)]

\* TrustBundleStore::update_if_newer: the result and the map after the call
update_if_newer_positive_only(m, b) ==
    IF validate(b).tag = "Err"
    THEN [ret |-> validate(b), bundles |-> m]
    ELSE IF b.trust_domain \in DOMAIN m
    THEN IF is_newer_than(b, m[b.trust_domain])
         THEN [ret |-> Ok(TRUE), bundles |-> insert(m, b.trust_domain, b)]
         ELSE [ret |-> Ok(FALSE), bundles |-> m]
    ELSE IF b.sequence_number > 0
    THEN [ret |-> Ok(TRUE), bundles |-> insert(m, b.trust_domain, b)]
    ELSE [ret |-> Ok(FALSE), bundles |-> m]
update_if_newer_unvalidated(m, b) ==
    IF b.trust_domain \in DOMAIN m
    THEN IF is_newer_than(b, m[b.trust_domain])
         THEN [ret |-> Ok(TRUE), bundles |-> insert(m, b.trust_domain, b)]
         ELSE [ret |-> Ok(FALSE), bundles |-> m]
    ELSE [ret |-> Ok(TRUE), bundles |-> insert(m, b.trust_domain, b)]
update_if_newer(m, b) ==
    IF validate(b).tag = "Err"
    THEN [ret |-> validate(b), bundles |-> m]
    ELSE IF b.trust_domain \in DOMAIN m
    THEN IF is_newer_than(b, m[b.trust_domain])
         THEN [ret |-> Ok(TRUE), bundles |-> insert(m, b.trust_domain, b)]
         ELSE [ret |-> Ok(FALSE), bundles |-> m]
    ELSE [ret |-> Ok(TRUE), bundles |-> insert(m, b.trust_domain, b)]

\* TrustBundleStore::remove_bundle: the removed bundle and the map after the call
remove_bundle(m, trust_domain) ==
    [ret |-> get_bundle(m, trust_domain), bundles |-> remove(m, trust_domain)]

(***************************************************************************)
(* FederatedBundle (trust_bundle.rs).                                      *)
(***************************************************************************)
\* FederatedBundle::new
FederatedBundle_new(primary_domain) ==
    [primary_domain |-> primary_domain, store |-> EmptyMap]

\* FederatedBundle::set_primary: the result and the store after the call
set_primary(f, b) ==
    IF b.trust_domain # f.primary_domain
    THEN [ret |-> Err("TrustBundleError", "Bundle domain doesn't match primary"),
          bundles |-> f.store]
    ELSE set_bundle(f.store, b)

\* FederatedBundle::add_federated: the result and the store after the call
add_federated_unchecked(f, b) == set_bundle(f.store, b)
add_federated(f, b) ==
    IF b.trust_domain = f.primary_domain
    THEN [ret |-> Err("TrustBundleError", "Use set_primary for primary domain"),
          bundles |-> f.store]
    ELSE set_bundle(f.store, b)

\* FederatedBundle::primary
primary(f) == get_bundle(f.store, f.primary_domain)

\* FederatedBundle::federated_domains
federated_domains(f) == {d \in domains(f.store) : d # f.primary_domain}

\* FederatedBundle::validate_spiffe_id, given the identity's trust_domain()
validate_spiffe_id_primary_only(f, trust_domain) ==
    IF trust_domain # f.primary_domain
    THEN Err("ValidationError", "No trust bundle for domain")
    ELSE Ok(Unit)
validate_spiffe_id(f, trust_domain) ==
    IF get_bundle(f.store, trust_domain) = None
    THEN Err("ValidationError", "No trust bundle for domain")
    ELSE Ok(Unit)

(***************************************************************************)
(* The store and federation as a state machine.  A run works on one        *)
(* object: a TrustBundleStore (fed = NoFed) or a FederatedBundle.          *)
(***************************************************************************)
Init ==
    /\ bundles = EmptyMap
    /\ fed \in {NoFed} \cup {FederatedBundle_new(d) : d \in Domains}
    /\ bundle = NoBundle
    /\ verifier = NoVerifier
    /\ config = NoConfig
    /\ installed = NoInstall
    /\ now = 0
    /\ op = NoOp
    /\ ClientIdle

SetBundle(b) ==
    /\ fed = NoFed
    /\ bundles' = set_bundle(bundles, b).bundles
    /\ op' = [name |-> "set_bundle", ret |-> set_bundle(bundles, b).ret]
    /\ UNCHANGED <<clientVars, fed, bundle, verifier, config, installed, now>>

UpdateIfNewer(b) ==
    /\ fed = NoFed
    /\ bundles' = update_if_newer(bundles, b).bundles
    /\ op' = [name |-> "update_if_newer", ret |-> update_if_newer(bundles, b).ret,
              removed |-> IF op.name = "remove_bundle" THEN op.ret ELSE None]
    /\ UNCHANGED <<clientVars, fed, bundle, verifier, config, installed, now>>

RemoveBundle(d) ==
    /\ fed = NoFed
    /\ bundles' = remove_bundle(bundles, d).bundles
    /\ op' = [name |-> "remove_bundle", ret |-> remove_bundle(bundles, d).ret]
    /\ UNCHANGED <<clientVars, fed, bundle, verifier, config, installed, now>>

SetPrimary(b) ==
    /\ fed # NoFed
    /\ fed' = [fed EXCEPT !.store = set_primary(fed, b).bundles]
    /\ op' = [name |-> "set_primary", ret |-> set_primary(fed, b).ret]
    /\ UNCHANGED <<clientVars, bundles, bundle, verifier, config, installed, now>>

AddFederated(b) ==
    /\ fed # NoFed
    /\ fed' = [fed EXCEPT !.store = add_federated(fed, b).bundles]
    /\ op' = [name |-> "add_federated", ret |-> add_federated(fed, b).ret]
    /\ UNCHANGED <<clientVars, bundles, bundle, verifier, config, installed, now>>

ValidateSpiffeId(d) ==
    /\ fed # NoFed
    /\ op' = [name |-> "validate_spiffe_id", ret |-> validate_spiffe_id(fed, d), domain |-> d]
    /\ UNCHANGED <<clientVars, bundles, fed, bundle, verifier, config, installed, now>>

Next ==
    \/ \E b \in IncomingBundles : SetBundle(b)
    \/ \E b \in IncomingBundles : UpdateIfNewer(b)
    \/ \E d \in Domains : RemoveBundle(d)
    \/ \E b \in IncomingBundles : SetPrimary(b)
    \/ \E b \in IncomingBundles : AddFederated(b)
    \/ \E d \in QueryDomains : ValidateSpiffeId(d)

Spec == Init /\ [][Next]_vars

(***************************************************************************)
(* Claims about the store and federation, checked under Spec.              *)
(***************************************************************************)
\* A bundle fails validation: stated from the data model, not from validate.
FailsValidation(b) ==
    \/ b.trust_domain = EmptyStr
    \/ Len(b.certificates) = 0
    \/ \E i \in 1..Len(b.certificates) : Len(b.certificates[i]) = 0

\* C1: with a bundle stored for d at sequence number s, update_if_newer with a
\* valid bundle for d at n replaces it and returns true when n > s, and leaves
\* the store as it was and returns false when n <= s; get_bundle(d) afterwards
\* returns the incoming bundle in the first case and the old one in the second.
C1_UpdateIfNewerStrict ==
    [][\A b \in IncomingBundles :
        (op'.name = "update_if_newer" /\ ~FailsValidation(b)
            /\ b.trust_domain \in DOMAIN bundles /\ UpdateIfNewer(b)) =>
            LET d == b.trust_domain
                s == bundles[d].sequence_number
                n == b.sequence_number
            IN /\ op'.ret.tag = "Ok"
               /\ (n > s => op'.ret.val = TRUE /\ get_bundle(bundles', d) = Some(b))
               /\ (n <= s => /\ op'.ret.val = FALSE
                             /\ get_bundle(bundles', d) = Some(bundles[d])
                             /\ bundles' = bundles)
               /\ \A e \in DOMAIN bundles' \ {d} :
                     e \in DOMAIN bundles /\ bundles'[e] = bundles[e]]_vars

\* C1 witness: an update_if_newer call on a stored domain returned false (the
\* incoming sequence number was not greater) and the stored bundle is in place.
C1_Witness ==
    /\ op.name = "update_if_newer"
    /\ op.ret.tag = "Ok"
    /\ op.ret.val = FALSE
    /\ ExampleOrg \in DOMAIN bundles
    /\ bundles[ExampleOrg].sequence_number = 1

\* C2: whenever the bundle stored for a domain is replaced by another bundle
\* for that domain, the replacement has a strictly greater sequence_number.
C2_ReplacementStrictlyNewer ==
    [][\A d \in Domains :
        (d \in DOMAIN bundles /\ d \in DOMAIN bundles' /\ bundles'[d] # bundles[d]) =>
            bundles'[d].sequence_number > bundles[d].sequence_number]_vars

\* C3: a failed set_bundle, update_if_newer, set_primary or add_federated
\* returns an error and leaves the domain-to-bundle map exactly as it was.
C3_FailedOpsAreNoOps ==
    [][/\ \A b \in IncomingBundles :
            /\ (op'.name = "set_bundle" /\ FailsValidation(b) /\ SetBundle(b)) =>
                   (op'.ret.tag = "Err" /\ bundles' = bundles)
            /\ (op'.name = "update_if_newer" /\ FailsValidation(b) /\ UpdateIfNewer(b)) =>
                   (op'.ret.tag = "Err" /\ bundles' = bundles)
            /\ (op'.name = "set_primary" /\ b.trust_domain # fed.primary_domain
                    /\ SetPrimary(b)) =>
                   (op'.ret.tag = "Err" /\ fed'.store = fed.store)
            /\ (op'.name = "add_federated" /\ b.trust_domain = fed.primary_domain
                    /\ AddFederated(b)) =>
                   (op'.ret.tag = "Err" /\ fed'.store = fed.store)
       /\ (op'.ret.tag = "Err") => (bundles' = bundles /\ fed' = fed)]_vars

\* C3 witness: add_federated was refused on a federation that already holds
\* bundles, which are all still there.
C3_Witness ==
    /\ op.name = "add_federated"
    /\ op.ret.tag = "Err"
    /\ fed # NoFed
    /\ DOMAIN fed.store = {ExampleOrg, PartnerOrg}

\* The FederatedBundle data-model invariant.
FederationInvariant(f) ==
    /\ (primary(f) # None => primary(f).val.trust_domain = f.primary_domain)
    /\ \A d \in DOMAIN f.store :
          /\ f.store[d].trust_domain = d
          /\ (d # f.primary_domain => f.store[d].trust_domain # f.primary_domain)
    /\ f.primary_domain \notin federated_domains(f)

\* C7: after any sequence of set_primary and add_federated calls the primary
\* bundle has trust_domain = primary_domain, every other registered bundle has
\* another trust_domain, and federated_domains() excludes primary_domain;
\* add_federated of a primary-domain bundle fails, the same bundle through
\* set_primary succeeds, and set_primary of another domain's bundle fails
\* with TrustBundleError.
C7_FederationInvariant ==
    [][(fed' # NoFed) =>
        /\ FederationInvariant(fed')
        /\ \A b \in IncomingBundles :
            /\ (op'.name = "add_federated" /\ b.trust_domain = fed.primary_domain
                    /\ AddFederated(b)) =>
                   (op'.ret.tag = "Err" /\ op'.ret.kind = "TrustBundleError"
                    /\ fed' = fed)
            /\ (op'.name = "set_primary" /\ b.trust_domain # fed.primary_domain
                    /\ SetPrimary(b)) =>
                   (op'.ret.tag = "Err" /\ op'.ret.kind = "TrustBundleError"
                    /\ fed' = fed)
            /\ (op'.name = "set_primary" /\ b.trust_domain = fed.primary_domain
                    /\ ~FailsValidation(b) /\ SetPrimary(b)) =>
                   (op'.ret.tag = "Ok" /\ primary(fed') = Some(b))
            /\ (op'.name = "add_federated" /\ b.trust_domain # fed.primary_domain
                    /\ ~FailsValidation(b) /\ AddFederated(b)) =>
                   (op'.ret.tag = "Ok" /\ b.trust_domain \in federated_domains(fed'))]_vars

\* C7 witness: a primary bundle was set on a federation that also holds a
\* federated bundle.
C7_Witness ==
    /\ op.name = "set_primary"
    /\ op.ret.tag = "Ok"
    /\ fed # NoFed
    /\ fed.primary_domain = ExampleOrg
    /\ primary(fed) # None
    /\ federated_domains(fed) = {PartnerOrg}

\* C10: validate_spiffe_id(id) succeeds exactly when a bundle, primary or
\* federated, is registered for id.trust_domain; otherwise it fails with the
\* domain-mismatch kind of error, which the code reports as
\* Error::ValidationError.
C10_ValidateSpiffeId ==
    (op.name = "validate_spiffe_id") =>
        /\ (op.ret.tag = "Ok" <=> op.domain \in DOMAIN fed.store)
        /\ (op.ret.tag = "Err" => op.ret.kind = "ValidationError")

\* C10 witness: an identity of a federated (not the primary) domain was
\* accepted while another domain is not registered.
C10_Witness ==
    /\ op.name = "validate_spiffe_id"
    /\ op.ret.tag = "Ok"
    /\ fed.primary_domain = ExampleOrg
    /\ op.domain = PartnerOrg
    /\ DOMAIN fed.store = {PartnerOrg}

(***************************************************************************)
(* A standalone TrustBundle as a state machine: the receiver of merge.     *)
(***************************************************************************)
InitBundle ==
    /\ bundles = EmptyMap
    /\ fed = NoFed
    /\ bundle \in TrustBundle
    /\ verifier = NoVerifier
    /\ config = NoConfig
    /\ installed = NoInstall
    /\ now = 0
    /\ op = NoOp
    /\ ClientIdle

Merge(other) ==
    /\ bundle' = merge(bundle, other).self
    /\ op' = [name |-> "merge", ret |-> merge(bundle, other).ret,
              self |-> bundle, other |-> other]
    /\ UNCHANGED <<clientVars, bundles, fed, verifier, config, installed, now>>

NextBundle == \E other \in TrustBundle : Merge(other)

SpecBundle == InitBundle /\ [][NextBundle]_vars

(***************************************************************************)
(* Claims about TrustBundle::merge, checked under SpecBundle.              *)
(***************************************************************************)
\* C8: merge with a bundle of another trust_domain fails with
\* TrustBundleError and leaves the receiver's certificates, sequence_number
\* and updated_at as they were, whatever the two sequence numbers are.
C8_MergeCrossDomainFails ==
    (op.name = "merge" /\ op.other.trust_domain # op.self.trust_domain) =>
        /\ op.ret.tag = "Err"
        /\ op.ret.kind = "TrustBundleError"
        /\ bundle.certificates = op.self.certificates
        /\ bundle.sequence_number = op.self.sequence_number
        /\ bundle.updated_at = op.self.updated_at
        /\ bundle.trust_domain = op.self.trust_domain

\* C8 witness: a merge across domains was refused although the other bundle
\* had the greater sequence number and other certificates.
C8_Witness ==
    /\ op.name = "merge"
    /\ op.self.trust_domain = ExampleOrg
    /\ op.other.trust_domain = PartnerOrg
    /\ op.other.sequence_number > op.self.sequence_number
    /\ op.other.certificates # op.self.certificates
    /\ op.ret.tag = "Err"

Max(a, b) == IF a >= b THEN a ELSE b

\* C9: merge with a bundle of the same trust_domain succeeds; when the other
\* bundle's sequence_number is strictly greater the receiver's certificates,
\* sequence_number and updated_at become exactly the other's (the old
\* certificates are dropped), otherwise the receiver is unchanged; afterwards
\* the receiver's sequence_number is the maximum of the two and merging the
\* same bundle again changes nothing.
C9_MergeSameDomain ==
    (op.name = "merge" /\ op.other.trust_domain = op.self.trust_domain) =>
        /\ op.ret.tag = "Ok"
        /\ bundle.trust_domain = op.self.trust_domain
        /\ (op.other.sequence_number > op.self.sequence_number =>
                /\ bundle.certificates = op.other.certificates
                /\ bundle.sequence_number = op.other.sequence_number
                /\ bundle.updated_at = op.other.updated_at)
        /\ (op.other.sequence_number <= op.self.sequence_number =>
                bundle = op.self)
        /\ bundle.sequence_number =
               Max(op.self.sequence_number, op.other.sequence_number)
        /\ merge(bundle, op.other).ret.tag = "Ok"
        /\ merge(bundle, op.other).self = bundle

\* C9 witness: a newer bundle of the same domain replaced a receiver that
\* held other certificates, none of which remain unless the other has them.
C9_Witness ==
    /\ op.name = "merge"
    /\ op.ret.tag = "Ok"
    /\ op.other.trust_domain = op.self.trust_domain
    /\ op.other.sequence_number > op.self.sequence_number
    /\ op.self.certificates = <<CertB, CertA>>
    /\ op.other.certificates = <<CertA>>
    /\ bundle.certificates = <<CertA>>
    /\ op.other.updated_at # op.self.updated_at

(***************************************************************************)
(* Strings (str): prefix tests and splitting, over sequences of pieces.    *)
(***************************************************************************)
\* str::starts_with
starts_with(s, prefix) ==
    /\ Len(s) >= Len(prefix)
    /\ SubSeq(s, 1, Len(prefix)) = prefix

\* str::strip_prefix
strip_prefix(s, prefix) ==
    IF starts_with(s, prefix)
    THEN Some(SubSeq(s, Len(prefix) + 1, Len(s)))
    ELSE None

\* str::splitn(2, sep): the parts, at most two
splitn2(s, sep) ==
    IF \E i \in 1..Len(s) : s[i] = sep
    THEN LET i == CHOOSE i \in 1..Len(s) :
                      s[i] = sep /\ \A j \in 1..(i - 1) : s[j] # sep
         IN <<SubSeq(s, 1, i - 1), SubSeq(s, i + 1, Len(s))>>
    ELSE <<s>>

(***************************************************************************)
(* SpiffeCertVerifier (spire-client, transport/spiffe.rs).  A certificate  *)
(* is the structure its DER encodes: whether it parses, its Subject        *)
(* Alternative Name extension, its issuer and whether its validity window  *)
(* has passed.                                                             *)
(***************************************************************************)
SpiffeScheme == <<"spiffe://">>
HttpScheme == <<"http://">>
Slash == "/"

\* URI general names met in certificates
Uris == { SpiffeScheme \o ExampleOrg \o <<Slash, "svc">>,
          SpiffeScheme \o ExampleOrg \o <<"x", Slash, "svc">>,
          SpiffeScheme \o PartnerOrg \o <<Slash, "svc">>,
          SpiffeScheme \o ExampleOrg,
          SpiffeScheme \o <<Slash, "svc">>,
          HttpScheme \o ExampleOrg \o <<Slash, "svc">> }

\* GeneralName::URI, GeneralName::DNSName
URI(u) == [type |-> "URI", value |-> u]
DNS(n) == [type |-> "DNS", value |-> n]
IgnoredName == <<"ignored">>
GeneralNames == {URI(u) : u \in Uris} \cup {DNS(IgnoredName)}

NameLists == UNION { [1..n -> GeneralNames] : n \in 0..MaxNames }

\* Root certificates (DER) and the issuers certificates chain to
RootA == <<48, 130, 1>>
RootB == <<48, 130, 2>>
OtherRoot == <<48, 130, 3>>
Roots == {RootA, RootB}
Issuers == {RootA, RootB, OtherRoot}

NotACertificate ==
    [parses |-> FALSE, san |-> "absent", general_names |-> <<>>,
     issuer |-> OtherRoot, expired |-> FALSE]

Certificates ==
    {NotACertificate}
    \cup [parses : {TRUE}, san : {"absent", "malformed"}, general_names : {<<>>},
          issuer : Issuers, expired : BOOLEAN]
    \cup [parses : {TRUE}, san : {"present"}, general_names : NameLists,
          issuer : Issuers, expired : BOOLEAN]

\* SpiffeCertVerifier { trust_domain, root_certs }
SpiffeCertVerifier ==
    [trust_domain : {ExampleOrg, PartnerOrg, EmptyStr}, root_certs : SUBSET Roots]

\* extract_spiffe_id
extract_spiffe_id(cert) ==
    IF ~cert.parses
    THEN Err("ValidationError", "Failed to parse certificate")
    ELSE IF cert.san = "malformed"
    THEN Err("ValidationError", "Failed to parse SAN")
    ELSE IF cert.san = "present"
            /\ \E i \in 1..Len(cert.general_names) :
                  /\ cert.general_names[i].type = "URI"
                  /\ starts_with(cert.general_names[i].value, SpiffeScheme)
    THEN LET i == CHOOSE i \in 1..Len(cert.general_names) :
                      /\ cert.general_names[i].type = "URI"
                      /\ starts_with(cert.general_names[i].value, SpiffeScheme)
                      /\ \A j \in 1..(i - 1) :
                            ~(/\ cert.general_names[j].type = "URI"
                              /\ starts_with(cert.general_names[j].value, SpiffeScheme))
         IN Ok(cert.general_names[i].value)
    ELSE Err("ValidationError", "No SPIFFE ID found in certificate")

\* validate_spiffe_id (transport/spiffe.rs), on the identity's text
validate_spiffe_id_str(spiffe_id, expected_trust_domain) ==
    IF strip_prefix(spiffe_id, SpiffeScheme) = None
    THEN Err("anyhow", <<"Invalid SPIFFE ID format">>)
    ELSE LET parts == splitn2(strip_prefix(spiffe_id, SpiffeScheme).val, Slash)
         IN IF Len(parts) = 0
            THEN Err("anyhow", <<"Missing trust domain in SPIFFE ID">>)
            ELSE IF parts[1] # expected_trust_domain
            THEN Err("anyhow", <<"Trust domain mismatch: expected ">>
                                   \o expected_trust_domain \o <<", got ">> \o parts[1])
            ELSE Ok(Unit)

\* rustls WebPkiServerVerifier::builder(roots).build(): no verifier without roots
WebPkiServerVerifier_build(roots) ==
    IF roots = {}
    THEN Err("General", "Failed to build verifier")
    ELSE Ok([roots |-> roots])

\* rustls WebPkiServerVerifier::verify_server_cert: the chain to a root and
\* the validity window, then the certificate's names against server_name
WebPki_verify_server_cert(webpki, end_entity, server_name) ==
    IF ~end_entity.parses
    THEN Err("InvalidCertificate", "BadEncoding")
    ELSE IF end_entity.issuer \notin webpki.roots
    THEN Err("InvalidCertificate", "UnknownIssuer")
    ELSE IF end_entity.expired
    THEN Err("InvalidCertificate", "Expired")
    ELSE IF ~(\E i \in 1..Len(end_entity.general_names) :
                 end_entity.general_names[i] = DNS(server_name))
    THEN Err("InvalidCertificate", "NotValidForName")
    ELSE Ok("ServerCertVerified")

\* SpiffeCertVerifier::verify_server_cert
verify_server_cert_chain_only(self, end_entity) ==
    IF WebPkiServerVerifier_build(self.root_certs).tag = "Err"
    THEN WebPkiServerVerifier_build(self.root_certs)
    ELSE WebPki_verify_server_cert(WebPkiServerVerifier_build(self.root_certs).val,
                                   end_entity, IgnoredName)
verify_server_cert(self, end_entity) ==
    IF extract_spiffe_id(end_entity).tag = "Err"
    THEN Err("General", extract_spiffe_id(end_entity).msg)
    ELSE IF validate_spiffe_id_str(extract_spiffe_id(end_entity).val,
                                   self.trust_domain).tag = "Err"
    THEN Err("General", validate_spiffe_id_str(extract_spiffe_id(end_entity).val,
                                               self.trust_domain).msg)
    ELSE IF WebPkiServerVerifier_build(self.root_certs).tag = "Err"
    THEN WebPkiServerVerifier_build(self.root_certs)
    ELSE IF WebPki_verify_server_cert(WebPkiServerVerifier_build(self.root_certs).val,
                                      end_entity, IgnoredName).tag = "Err"
    THEN WebPki_verify_server_cert(WebPkiServerVerifier_build(self.root_certs).val,
                                   end_entity, IgnoredName)
    ELSE Ok("ServerCertVerified")

(***************************************************************************)
(* The verifier applied to a peer's leaf certificate during a handshake.   *)
(* verify_server_cert takes &self and changes nothing: one call per run.   *)
(***************************************************************************)
InitVerifier ==
    /\ bundles = EmptyMap
    /\ fed = NoFed
    /\ bundle = NoBundle
    /\ verifier \in SpiffeCertVerifier
    /\ config = NoConfig
    /\ installed = NoInstall
    /\ now = 0
    /\ op = NoOp
    /\ ClientIdle

VerifyServerCert(end_entity) ==
    /\ op = NoOp
    /\ op' = [name |-> "verify_server_cert", end_entity |-> end_entity,
              ret |-> verify_server_cert(verifier, end_entity)]
    /\ UNCHANGED <<clientVars, bundles, fed, bundle, verifier, config, installed, now>>

NextVerifier == \E end_entity \in Certificates : VerifyServerCert(end_entity)

SpecVerifier == InitVerifier /\ [][NextVerifier]_vars

(***************************************************************************)
(* Claims about the peer identity verifier, checked under SpecVerifier.    *)
(***************************************************************************)
\* The SPIFFE URI names of a certificate, in the order of its SAN.
SpiffeUriIndexes(cert) ==
    {i \in 1..Len(cert.general_names) :
        /\ cert.general_names[i].type = "URI"
        /\ Len(cert.general_names[i].value) >= 1
        /\ cert.general_names[i].value[1] = "spiffe://"}

\* The trust domain written in a spiffe:// URI: what lies between the scheme
\* and the first "/" (or the end).
DomainOfUri(u) ==
    LET rest == Tail(u)
        stops == {i \in 1..Len(rest) : rest[i] = "/"}
        n == IF stops = {} THEN Len(rest)
             ELSE (CHOOSE i \in stops : \A j \in stops : i <= j) - 1
    IN [k \in 1..n |-> rest[k]]

\* The certificate carries a SPIFFE identity and it belongs to trust_domain.
IdentityInDomain(cert, trust_domain) ==
    /\ cert.parses
    /\ cert.san = "present"
    /\ SpiffeUriIndexes(cert) # {}
    /\ LET first == CHOOSE i \in SpiffeUriIndexes(cert) :
                        \A j \in SpiffeUriIndexes(cert) : i <= j
       IN DomainOfUri(cert.general_names[first].value) = trust_domain

\* The certificate chains to one of the roots and is within its validity.
ChainTrusted(cert, roots) ==
    cert.parses /\ cert.issuer \in roots /\ ~cert.expired

\* C4: verify_server_cert accepts a peer only if its SPIFFE identity belongs
\* to the expected trust domain and the delegated chain verification against
\* the root set succeeds; a valid chain with an identity of another domain
\* (or none) is rejected, and so is the right identity with a broken chain.
C4_VerifierBothChecks ==
    (op.name = "verify_server_cert") =>
        /\ (op.ret.tag = "Ok" =>
                /\ IdentityInDomain(op.end_entity, verifier.trust_domain)
                /\ ChainTrusted(op.end_entity, verifier.root_certs))
        /\ (~IdentityInDomain(op.end_entity, verifier.trust_domain) =>
                op.ret.tag = "Err")
        /\ (~ChainTrusted(op.end_entity, verifier.root_certs) =>
                op.ret.tag = "Err")

\* C4 witness: a peer was accepted: its certificate names the expected trust
\* domain and chains to a configured root.
C4_Witness ==
    /\ op.name = "verify_server_cert"
    /\ op.ret.tag = "Ok"
    /\ verifier.trust_domain = ExampleOrg
    /\ verifier.root_certs = {RootA}
    /\ op.end_entity.issuer = RootA

(***************************************************************************)
(* SpiffeId (spiffe_id.rs) and the URLs it is built on (url::Url).         *)
(***************************************************************************)
Colon == ":"
DotDot == ".."
Dot == "."

\* The pieces that are decimal port numbers
PortNumbers == {"8080"}

\* str::contains, for one piece
contains(s, piece) == \E i \in 1..Len(s) : s[i] = piece

\* The segments of a URL path: what stands after each "/"
RECURSIVE path_segments(_)
path_segments(path) ==
    IF path = <<>> THEN <<>>
    ELSE LET parts == splitn2(Tail(path), Slash)
         IN IF Len(parts) = 1 THEN <<parts[1]>>
            ELSE <<parts[1]>> \o path_segments(<<Slash>> \o parts[2])

\* url::Url::parse, the path state: "." segments are dropped and ".."
\* segments remove the segment before them; out is what was kept so far
RECURSIVE remove_dot_segments(_, _)
remove_dot_segments(out, segments) ==
    IF segments = <<>> THEN out
    ELSE LET segment == Head(segments)
             last == Len(segments) = 1
             kept == IF segment = <<DotDot>>
                     THEN (IF out = <<>> THEN <<>> ELSE SubSeq(out, 1, Len(out) - 1))
                          \o (IF last THEN << <<>> >> ELSE <<>>)
                     ELSE IF segment = <<Dot>>
                     THEN out \o (IF last THEN << <<>> >> ELSE <<>>)
                     ELSE Append(out, segment)
         IN remove_dot_segments(kept, Tail(segments))

\* The text of a path given by its segments
RECURSIVE join_segments(_)
join_segments(segments) ==
    IF segments = <<>> THEN <<>>
    ELSE <<Slash>> \o Head(segments) \o join_segments(Tail(segments))

\* url::Url::parse of scheme://host/path: the Url, or the ParseError
Url_parse(s) ==
    IF s = <<>> \/ Head(s) \notin {"spiffe://", "http://"}
    THEN Err("UrlError", "relative URL without a base")
    ELSE LET rest == Tail(s)
             parts == splitn2(rest, Slash)
             authority == splitn2(parts[1], Colon)
             host == authority[1]
             port == IF Len(authority) = 1 THEN <<>> ELSE authority[2]
             path == IF Len(parts) = 1 THEN <<>>
                     ELSE SubSeq(rest, Len(parts[1]) + 1, Len(rest))
         IN IF port # <<>> /\ (Len(port) # 1 \/ port[1] \notin PortNumbers)
            THEN Err("UrlError", "invalid port number")
            ELSE IF host = <<>> /\ (Head(s) = "http://" \/ port # <<>>)
            THEN Err("UrlError", "empty host")
            ELSE Ok([scheme |-> Head(s),
                     host |-> IF host = <<>> THEN None ELSE Some(host),
                     port |-> IF port = <<>> THEN None ELSE Some(port[1]),
                     path |-> IF path = <<>>
                              THEN (IF Head(s) = "http://" THEN <<Slash>> ELSE <<>>)
                              ELSE join_segments(
                                       remove_dot_segments(<<>>, path_segments(path)))])

\* Display for Url: its serialization
Url_to_string(url) ==
    <<url.scheme>> \o (IF url.host = None THEN <<>> ELSE url.host.val)
        \o (IF url.port = None THEN <<>> ELSE <<Colon, url.port.val>>)
        \o url.path

\* SpiffeId::new
SpiffeId_new(trust_domain, path) ==
    IF trust_domain = EmptyStr
    THEN Err("InvalidSpiffeId", "Trust domain cannot be empty")
    ELSE IF contains(trust_domain, Slash) \/ contains(trust_domain, Colon)
    THEN Err("InvalidSpiffeId", "Trust domain cannot contain '/' or ':'")
    ELSE IF path = EmptyStr
    THEN Err("InvalidSpiffeId", "Path cannot be empty")
    ELSE LET p == IF ~starts_with(path, <<Slash>>) THEN <<Slash>> \o path ELSE path
             url_str == SpiffeScheme \o trust_domain \o p
             raw_url == Url_parse(url_str)
         IN IF raw_url.tag = "Err" THEN raw_url
            ELSE IF raw_url.val.scheme # "spiffe://"
            THEN Err("InvalidSpiffeId", "Scheme must be 'spiffe'")
            ELSE Ok([trust_domain |-> trust_domain, path |-> p,
                     raw_url |-> raw_url.val])

\* SpiffeId::parse
SpiffeId_parse(s) ==
    LET url == Url_parse(s)
    IN IF url.tag = "Err" THEN url
       ELSE IF url.val.scheme # "spiffe://"
       THEN Err("InvalidSpiffeId", "Invalid scheme, expected 'spiffe'")
       ELSE IF url.val.host = None
       THEN Err("InvalidSpiffeId", "Missing trust domain")
       ELSE IF url.val.host.val = EmptyStr
       THEN Err("InvalidSpiffeId", "Empty trust domain")
       ELSE IF url.val.path = EmptyStr \/ url.val.path = <<Slash>>
       THEN Err("InvalidSpiffeId", "SPIFFE ID must have a non-empty path")
       ELSE Ok([trust_domain |-> url.val.host.val, path |-> url.val.path,
                raw_url |-> url.val])

\* Display for SpiffeId
SpiffeId_to_string(self) == Url_to_string(self.raw_url)

\* SpiffeId::is_member_of
is_member_of(self, trust_domain) == self.trust_domain = trust_domain

(***************************************************************************)
(* X509Svid (svid.rs) and MtlsConfig (mtls.rs).                            *)
(***************************************************************************)
\* SpiffeId::new("example.org", "/service/web"), ("example.org", "/service/db")
WebId == SpiffeId_new(ExampleOrg, <<Slash, "service", Slash, "web">>).val
DbId == SpiffeId_new(ExampleOrg, <<Slash, "service", Slash, "db">>).val

\* SpiffeId::validate
SpiffeId_validate(id) ==
    IF id.trust_domain = EmptyStr
    THEN Err("InvalidSpiffeId", "Empty trust domain")
    ELSE IF id.path = EmptyStr \/ id.path = <<Slash>>
    THEN Err("InvalidSpiffeId", "Invalid path")
    ELSE IF \E i \in 1..Len(id.path) : id.path[i] = ".."
    THEN Err("InvalidSpiffeId", "Path cannot contain '..' segments")
    ELSE Ok(Unit)

\* DER blobs: leaf certificates, private keys, and the mock bytes of the tests
LeafA == <<48, 130, 11>>
LeafB == <<48, 130, 12>>
KeyA == <<48, 129, 1>>
MockKey == <<4, 5, 6>>
MockRoot == <<7, 8, 9>>

\* The documents X509Svid::new returns: non-empty cert_chain and private_key,
\* a valid spiffe_id
X509Svid ==
    [spiffe_id : {WebId, DbId}, cert_chain : {<<LeafA>>, <<LeafB>>},
     private_key : {KeyA, MockKey}, expiry : Times, serial_number : {"12345"}]

\* The trust bundles handed to the configuration (not validated by it)
MtlsBundles ==
    [trust_domain : {ExampleOrg},
     certificates : { <<>>, <<RootA>>, <<RootA, RootB>>, <<MockRoot>> },
     sequence_number : {0}, updated_at : {0}]

\* X509Svid::is_expired, at time t
is_expired(svid, t) == t > svid.expiry

\* X509Svid::validate, at time t
X509Svid_validate_identity_only(svid, t) == SpiffeId_validate(svid.spiffe_id)
X509Svid_validate(svid, t) ==
    IF is_expired(svid, t)
    THEN Err("ValidationError", "SVID has expired")
    ELSE SpiffeId_validate(svid.spiffe_id)

\* RootCertStore::add over trust_bundle.certificates(): only a certificate
\* that parses becomes a trust anchor
root_store(trust_bundle) ==
    IF \E i \in 1..Len(trust_bundle.certificates) :
           trust_bundle.certificates[i] \notin Roots
    THEN Err("TlsError", "Failed to add root certificate")
    ELSE Ok({trust_bundle.certificates[i] : i \in 1..Len(trust_bundle.certificates)})

\* MtlsConfig::convert_cert_chain
convert_cert_chain(chain) ==
    IF chain = <<>>
    THEN Err("TlsError", "Certificate chain is empty")
    ELSE Ok(chain)

\* MtlsConfig::convert_private_key
convert_private_key(key_der) ==
    IF key_der = <<>>
    THEN Err("TlsError", "Private key is empty")
    ELSE IF key_der # KeyA
    THEN Err("TlsError", "Failed to parse private key")
    ELSE Ok(key_der)

\* MtlsConfig::build_client_config: the server is verified by rustls' default
\* verifier over the root store (with_root_certificates)
build_client_config(svid, trust_bundle) ==
    IF root_store(trust_bundle).tag = "Err" THEN root_store(trust_bundle)
    ELSE IF convert_cert_chain(svid.cert_chain).tag = "Err"
    THEN convert_cert_chain(svid.cert_chain)
    ELSE IF convert_private_key(svid.private_key).tag = "Err"
    THEN convert_private_key(svid.private_key)
    ELSE Ok([verifier |-> "WebPkiServerVerifier",
             root_store |-> root_store(trust_bundle).val,
             cert_chain |-> convert_cert_chain(svid.cert_chain).val,
             private_key |-> convert_private_key(svid.private_key).val])

\* MtlsConfig::build_server_config: client certificates are required and
\* verified by WebPkiClientVerifier over the root store, which cannot be
\* built without roots
build_server_config(svid, trust_bundle) ==
    IF root_store(trust_bundle).tag = "Err" THEN root_store(trust_bundle)
    ELSE IF root_store(trust_bundle).val = {}
    THEN Err("TlsError", "Failed to create client verifier")
    ELSE IF convert_cert_chain(svid.cert_chain).tag = "Err"
    THEN convert_cert_chain(svid.cert_chain)
    ELSE IF convert_private_key(svid.private_key).tag = "Err"
    THEN convert_private_key(svid.private_key)
    ELSE Ok([verifier |-> "WebPkiClientVerifier",
             root_store |-> root_store(trust_bundle).val,
             cert_chain |-> convert_cert_chain(svid.cert_chain).val,
             private_key |-> convert_private_key(svid.private_key).val])

\* MtlsConfig::from_svid, at time t
from_svid(svid, trust_bundle, t) ==
    IF X509Svid_validate(svid, t).tag = "Err" THEN X509Svid_validate(svid, t)
    ELSE IF build_client_config(svid, trust_bundle).tag = "Err"
    THEN build_client_config(svid, trust_bundle)
    ELSE IF build_server_config(svid, trust_bundle).tag = "Err"
    THEN build_server_config(svid, trust_bundle)
    ELSE Ok([client_config |-> build_client_config(svid, trust_bundle).val,
             server_config |-> Some(build_server_config(svid, trust_bundle).val),
             spiffe_id |-> svid.spiffe_id])

\* MtlsConfig::update_svid, at time t: the result and the configuration after
update_svid_field_by_field(self, svid, trust_bundle, t) ==
    IF is_expired(svid, t)
    THEN [ret |-> Err("ValidationError", "Cannot update with expired SVID"),
          self |-> self]
    ELSE IF build_client_config(svid, trust_bundle).tag = "Err"
    THEN [ret |-> build_client_config(svid, trust_bundle), self |-> self]
    ELSE IF build_server_config(svid, trust_bundle).tag = "Err"
    THEN [ret |-> build_server_config(svid, trust_bundle),
          self |-> [self EXCEPT
                      !.client_config = build_client_config(svid, trust_bundle).val]]
    ELSE [ret |-> Ok(Unit),
          self |-> [client_config |-> build_client_config(svid, trust_bundle).val,
                    server_config |-> Some(build_server_config(svid, trust_bundle).val),
                    spiffe_id |-> svid.spiffe_id]]
update_svid(self, svid, trust_bundle, t) ==
    IF is_expired(svid, t)
    THEN [ret |-> Err("ValidationError", "Cannot update with expired SVID"),
          self |-> self]
    ELSE IF build_client_config(svid, trust_bundle).tag = "Err"
    THEN [ret |-> build_client_config(svid, trust_bundle), self |-> self]
    ELSE IF build_server_config(svid, trust_bundle).tag = "Err"
    THEN [ret |-> build_server_config(svid, trust_bundle), self |-> self]
    ELSE [ret |-> Ok(Unit),
          self |-> [client_config |-> build_client_config(svid, trust_bundle).val,
                    server_config |-> Some(build_server_config(svid, trust_bundle).val),
                    spiffe_id |-> svid.spiffe_id]]

\* rustls WebPkiClientVerifier::verify_client_cert: the chain to a root and
\* the validity window; a client certificate is mandatory
WebPki_verify_client_cert(webpki, end_entity) ==
    IF ~end_entity.parses
    THEN Err("InvalidCertificate", "BadEncoding")
    ELSE IF end_entity.issuer \notin webpki.roots
    THEN Err("InvalidCertificate", "UnknownIssuer")
    ELSE IF end_entity.expired
    THEN Err("InvalidCertificate", "Expired")
    ELSE Ok("ClientCertVerified")

\* The client policy verifying the server it connects to under server_name
client_verifies_server(client_config, end_entity, server_name) ==
    WebPki_verify_server_cert([roots |-> client_config.root_store],
                              end_entity, server_name)

\* The server policy verifying the client that connects
server_verifies_client(server_config, end_entity) ==
    WebPki_verify_client_cert([roots |-> server_config.root_store], end_entity)

(***************************************************************************)
(* An MtlsConfig as a state machine: built, rotated, and used in           *)
(* handshakes with remote peers while time passes.                         *)
(***************************************************************************)
HostName == <<"server.example.org">>

\* Leaf certificates remote peers present
PeerCertificates ==
    [parses : {TRUE}, san : {"present"},
     general_names : { <<>>,
                       <<DNS(HostName)>>,
                       <<URI(SpiffeScheme \o ExampleOrg \o <<Slash, "svc">>)>>,
                       <<URI(SpiffeScheme \o PartnerOrg \o <<Slash, "svc">>)>>,
                       <<URI(SpiffeScheme \o ExampleOrg \o <<Slash, "svc">>), DNS(HostName)>>,
                       <<URI(SpiffeScheme \o PartnerOrg \o <<Slash, "svc">>), DNS(HostName)>> },
     issuer : Issuers, expired : BOOLEAN]

InitMtls ==
    /\ bundles = EmptyMap
    /\ fed = NoFed
    /\ bundle = NoBundle
    /\ verifier = NoVerifier
    /\ config = NoConfig
    /\ installed = NoInstall
    /\ now = 0
    /\ op = NoOp
    /\ ClientIdle

FromSvid(svid, trust_bundle) ==
    /\ config = NoConfig
    /\ LET r == from_svid(svid, trust_bundle, now)
       IN /\ config' = IF r.tag = "Ok" THEN r.val ELSE NoConfig
          /\ installed' = IF r.tag = "Ok"
                          THEN [svid |-> svid, trust_bundle |-> trust_bundle, at |-> now]
                          ELSE NoInstall
          /\ op' = [name |-> "from_svid", ret |-> [tag |-> r.tag]]
    /\ UNCHANGED <<clientVars, bundles, fed, bundle, verifier, now>>

UpdateSvid(svid, trust_bundle) ==
    /\ config # NoConfig
    /\ LET r == update_svid(config, svid, trust_bundle, now)
       IN /\ config' = r.self
          /\ installed' = IF r.ret.tag = "Ok"
                          THEN [svid |-> svid, trust_bundle |-> trust_bundle, at |-> now]
                          ELSE installed
          /\ op' = [name |-> "update_svid", ret |-> r.ret, self |-> config,
                    expired |-> (now > svid.expiry)]
    /\ UNCHANGED <<clientVars, bundles, fed, bundle, verifier, now>>

ClientHandshake(end_entity) ==
    /\ config # NoConfig
    /\ op' = [name |-> "client_handshake", end_entity |-> end_entity,
              ret |-> client_verifies_server(config.client_config, end_entity, HostName)]
    /\ UNCHANGED <<clientVars, bundles, fed, bundle, verifier, config, installed, now>>

ServerHandshake(end_entity) ==
    /\ config # NoConfig
    /\ op' = [name |-> "server_handshake", end_entity |-> end_entity,
              ret |-> server_verifies_client(config.server_config.val, end_entity)]
    /\ UNCHANGED <<clientVars, bundles, fed, bundle, verifier, config, installed, now>>

Tick ==
    /\ now < MaxTime
    /\ now' = now + 1
    /\ UNCHANGED <<clientVars, bundles, fed, bundle, verifier, config, installed, op>>

NextMtls ==
    \/ \E svid \in X509Svid, trust_bundle \in MtlsBundles : FromSvid(svid, trust_bundle)
    \/ \E svid \in X509Svid, trust_bundle \in MtlsBundles : UpdateSvid(svid, trust_bundle)
    \/ \E end_entity \in PeerCertificates : ClientHandshake(end_entity)
    \/ \E end_entity \in PeerCertificates : ServerHandshake(end_entity)
    \/ Tick

SpecMtls == InitMtls /\ [][NextMtls]_vars

(***************************************************************************)
(* Claims about MtlsConfig, checked under SpecMtls.                        *)
(***************************************************************************)
\* The root certificates of a bundle, as a set.
BundleRoots(tb) == {tb.certificates[i] : i \in 1..Len(tb.certificates)}

\* C5: in both directions a configuration built by from_svid accepts a peer
\* only after full chain verification against the bundle's roots and the
\* SPIFFE identity check: a peer whose chain is valid but whose SPIFFE
\* identity is missing or of another trust domain is rejected.
C5_BothDirectionsCheckIdentity ==
    (op.name \in {"client_handshake", "server_handshake"} /\ op.ret.tag = "Ok") =>
        /\ ChainTrusted(op.end_entity, BundleRoots(installed.trust_bundle))
        /\ IdentityInDomain(op.end_entity, installed.trust_bundle.trust_domain)

\* C6: update_svid is all-or-nothing.  The installed client policy, server
\* policy and spiffe_id always derive from one document, the last one
\* installed, which was not expired when it was installed; an update with an
\* expired document fails with the expired-credential error (the code's
\* Error::ValidationError), and a failed update leaves the configuration as
\* it was.
C6_UpdateSvidAllOrNothing ==
    /\ (config # NoConfig) =>
          /\ installed # NoInstall
          /\ config.client_config.cert_chain = installed.svid.cert_chain
          /\ config.client_config.private_key = installed.svid.private_key
          /\ config.client_config.root_store = BundleRoots(installed.trust_bundle)
          /\ config.server_config.tag = "Some"
          /\ config.server_config.val.cert_chain = installed.svid.cert_chain
          /\ config.server_config.val.private_key = installed.svid.private_key
          /\ config.server_config.val.root_store = BundleRoots(installed.trust_bundle)
          /\ config.spiffe_id = installed.svid.spiffe_id
          /\ installed.at <= installed.svid.expiry
    /\ (op.name = "update_svid") =>
          /\ (op.expired =>
                 op.ret.tag = "Err" /\ op.ret.kind = "ValidationError")
          /\ (op.ret.tag = "Err" => config = op.self)
          /\ (op.ret.tag = "Ok" => ~op.expired)

\* C6 witness: an update failed after the client policy could be built (no
\* roots for the server policy) and the configuration is the one from before,
\* of another document.
C6_Witness ==
    /\ op.name = "update_svid"
    /\ op.ret.tag = "Err"
    /\ op.ret.kind = "TlsError"
    /\ op.ret.msg = "Failed to create client verifier"
    /\ config = op.self
    /\ config.spiffe_id = WebId
    /\ now = 1

(***************************************************************************)
(* SVIDs (svid.rs).  Time is counted in hours.                             *)
(***************************************************************************)
\* chrono::Duration::hours(24)
Day == 24

\* chrono::Duration / i32: the quotient, truncated toward zero
duration_div(d, n) == IF d >= 0 THEN d \div n ELSE -((-d) \div n)

\* X509Svid::new
X509Svid_new_unvalidated(spiffe_id, cert_chain, private_key, expiry, serial_number) ==
    IF cert_chain = <<>>
    THEN Err("X509Error", "Certificate chain cannot be empty")
    ELSE IF private_key = <<>>
    THEN Err("X509Error", "Private key cannot be empty")
    ELSE Ok([spiffe_id |-> spiffe_id, cert_chain |-> cert_chain,
             private_key |-> private_key, expiry |-> expiry,
             serial_number |-> serial_number])
X509Svid_new(spiffe_id, cert_chain, private_key, expiry, serial_number) ==
    IF cert_chain = <<>>
    THEN Err("X509Error", "Certificate chain cannot be empty")
    ELSE IF private_key = <<>>
    THEN Err("X509Error", "Private key cannot be empty")
    ELSE IF SpiffeId_validate(spiffe_id).tag = "Err"
    THEN SpiffeId_validate(spiffe_id)
    ELSE Ok([spiffe_id |-> spiffe_id, cert_chain |-> cert_chain,
             private_key |-> private_key, expiry |-> expiry,
             serial_number |-> serial_number])

\* X509Svid::leaf_cert
leaf_cert(self) == self.cert_chain[1]

\* X509Svid::time_until_expiry, at time t
time_until_expiry(self, t) == self.expiry - t

\* X509Svid::needs_rotation, at time t
X509Svid_needs_rotation(self, t) ==
    LET time_until == time_until_expiry(self, t)
        total_lifetime == self.expiry - t + Day
    IN time_until < duration_div(total_lifetime, 3)

\* JwtSvid::is_expired, at time t
JwtSvid_is_expired(self, t) == t > self.expiry

\* SvidBundle::new
SvidBundle_new(x509_svid) ==
    [x509_svid |-> x509_svid, jwt_svids |-> [a \in {} |-> None]]

\* SvidBundle::add_jwt_svid
add_jwt_svid(self, audience, jwt_svid) ==
    [self EXCEPT !.jwt_svids = insert(self.jwt_svids, audience, jwt_svid)]

\* SvidBundle::get_jwt_svid
get_jwt_svid(self, audience) ==
    IF audience \in DOMAIN self.jwt_svids
    THEN Some(self.jwt_svids[audience]) ELSE None

\* SvidBundle::needs_rotation, at time t
SvidBundle_needs_rotation_jwt_proactive(self, t) ==
    \/ self.x509_svid.tag = "Some" /\ X509Svid_needs_rotation(self.x509_svid.val, t)
    \/ \E a \in DOMAIN self.jwt_svids :
          X509Svid_needs_rotation(self.jwt_svids[a], t)
SvidBundle_needs_rotation(self, t) ==
    IF self.x509_svid.tag = "Some" /\ X509Svid_needs_rotation(self.x509_svid.val, t)
    THEN TRUE
    ELSE \E a \in DOMAIN self.jwt_svids : JwtSvid_is_expired(self.jwt_svids[a], t)

(***************************************************************************)
(* WorkloadApiClient and ManagedWorkloadClient (workload.rs).              *)
(***************************************************************************)
\* What the SPIRE agent issues to the workload: documents that need rotation
\* from the start and documents that come to need it as time passes
IssuedSvids ==
    {X509Svid_new(WebId, <<LeafA>>, KeyA, e, "12345").val : e \in {0, Day \div 2 - 1}}

\* The bundle lists the SPIRE agent serves
IssuedBundleLists ==
    LET E0 == [trust_domain |-> ExampleOrg, certificates |-> <<CertA>>,
               sequence_number |-> 0, updated_at |-> 0]
        E1 == [trust_domain |-> ExampleOrg, certificates |-> <<CertB, CertA>>,
               sequence_number |-> 1, updated_at |-> 0]
        P0 == [trust_domain |-> PartnerOrg, certificates |-> <<CertA>>,
               sequence_number |-> 0, updated_at |-> 0]
        Bad == [trust_domain |-> ExampleOrg, certificates |-> <<>>,
                sequence_number |-> 0, updated_at |-> 0]
    IN { <<E0>>, <<E1, P0>>, <<Bad, P0>> }

\* WorkloadApiClient::fetch_x509_svid: the results the call can return
fetch_x509_svid ==
    {Err("AgentError", "Not implemented yet")} \cup {Ok(d) : d \in IssuedSvids}

\* WorkloadApiClient::fetch_bundles: the results the call can return
fetch_bundles ==
    {Err("AgentError", "Not implemented yet")} \cup {Ok(l) : l \in IssuedBundleLists}

\* WorkloadApiClient::get_svid_bundle
get_svid_bundle(self_svid_bundle) == self_svid_bundle

\* WorkloadApiClient::get_trust_bundle
get_trust_bundle(self_trust_bundles, trust_domain) ==
    get_bundle(self_trust_bundles, trust_domain)

\* WorkloadApiClient::refresh_all, the match on fetch_x509_svid's result:
\* svid_bundle after it
refresh_x509_svid_new_bundle(self_svid_bundle, fetched) ==
    IF fetched.tag = "Ok"
    THEN Some(SvidBundle_new(Some(fetched.val)))
    ELSE self_svid_bundle
refresh_x509_svid(self_svid_bundle, fetched) ==
    IF fetched.tag = "Ok"
    THEN IF self_svid_bundle = None
         THEN Some(SvidBundle_new(Some(fetched.val)))
         ELSE Some([self_svid_bundle.val EXCEPT !.x509_svid = Some(fetched.val)])
    ELSE self_svid_bundle

\* the for loop over the fetched bundles: the store after it
RECURSIVE store_bundles(_, _)
store_bundles(m, fetched_bundles) ==
    IF fetched_bundles = <<>> THEN m
    ELSE store_bundles(set_bundle(m, Head(fetched_bundles)).bundles,
                       Tail(fetched_bundles))

\* WorkloadApiClient::refresh_all, the match on fetch_bundles' result:
\* trust_bundles after it
refresh_trust_bundles_clear_on_error(self_trust_bundles, fetched) ==
    IF fetched.tag = "Ok"
    THEN store_bundles(self_trust_bundles, fetched.val)
    ELSE EmptyMap
refresh_trust_bundles(self_trust_bundles, fetched) ==
    IF fetched.tag = "Ok"
    THEN store_bundles(self_trust_bundles, fetched.val)
    ELSE self_trust_bundles

\* WorkloadApiClient::refresh_all: its result
refresh_all_ret(fetched_svid, fetched_bundles) == Ok(Unit)

\* The rotation task after the stop signal was read
after_tick_ignore_stop(stop) == "checking"
after_tick(stop) == IF stop THEN "stopped" ELSE "checking"

\* The rotation task after get_svid_bundle and needs_rotation, at time t
after_check_always(cached, t) == "refresh_svid"
after_check_empty_refreshes(cached, t) ==
    IF cached.tag = "None" \/ SvidBundle_needs_rotation(cached.val, t)
    THEN "refresh_svid"
    ELSE "waiting"
after_check(cached, t) ==
    IF cached.tag = "Some" /\ SvidBundle_needs_rotation(cached.val, t)
    THEN "refresh_svid"
    ELSE "waiting"

\* The rotation task after refresh_all returned
after_refresh_exit(ret) == "stopped"
after_refresh(ret) == "waiting"

(***************************************************************************)
(* A ManagedWorkloadClient with auto_rotate as a state machine: the        *)
(* rotation task, the application calling refresh_all and shutdown, a      *)
(* reader of the cache, and the clock.  Each await of the code is a step.  *)
(***************************************************************************)
storeVars == <<fed, bundle, verifier, config, installed, identity, document,
               concVars>>

InFlight(p) == p \in {"refresh_svid", "refresh_bundles"}

\* ManagedWorkloadClient::new
InitWorkload ==
    /\ StoreIdle
    /\ identity = NoId
    /\ document = NoSvid
    /\ svid_bundle = None
    /\ shutdown = FALSE
    /\ pc = "waiting"
    /\ app = "none"
    /\ started = NoCall
    /\ seen = NoSeen
    /\ task_failed = FALSE
    /\ ConcIdle
    /\ now = 0
    /\ op = NoOp

\* history kept when a refresh_all starts and when it returns, other being
\* where the other caller is
CallStarts(other) ==
    /\ started' = IF InFlight(other) THEN [started EXCEPT !.alone = FALSE]
                  ELSE [svid_bundle |-> svid_bundle, bundles |-> bundles,
                        alone |-> TRUE]
    /\ seen' = IF InFlight(other) THEN seen ELSE NoSeen

CallReturns(other) ==
    started' = IF InFlight(other) THEN started ELSE NoCall

\* interval_timer.tick().await returns
IntervalTick ==
    /\ pc = "waiting"
    /\ pc' = "ticked"
    /\ UNCHANGED <<storeVars, bundles, svid_bundle, shutdown, app, started, seen,
                   task_failed, now, op>>

\* *shutdown.read().await
ReadShutdown ==
    /\ pc = "ticked"
    /\ pc' = after_tick(shutdown)
    /\ UNCHANGED <<storeVars, bundles, svid_bundle, shutdown, app, started, seen,
                   task_failed, now, op>>

\* client.get_svid_bundle().await and bundle.needs_rotation()
CheckRotation ==
    /\ pc = "checking"
    /\ pc' = after_check(get_svid_bundle(svid_bundle), now)
    /\ IF InFlight(pc') THEN CallStarts(app) ELSE UNCHANGED <<started, seen>>
    /\ UNCHANGED <<storeVars, bundles, svid_bundle, shutdown, app, task_failed, now, op>>

\* refresh_all called by the task: fetch_x509_svid().await and the store of
\* its result
TaskRefreshSvid(fetched) ==
    /\ pc = "refresh_svid"
    /\ svid_bundle' = refresh_x509_svid(svid_bundle, fetched)
    /\ task_failed' = (fetched.tag = "Err")
    /\ pc' = "refresh_bundles"
    /\ UNCHANGED <<storeVars, bundles, shutdown, app, started, seen, now, op>>

\* refresh_all called by the task: fetch_bundles().await, the store of its
\* result and the return to the loop
TaskRefreshBundles(fetched) ==
    /\ pc = "refresh_bundles"
    /\ bundles' = refresh_trust_bundles(bundles, fetched)
    /\ task_failed' = (task_failed /\ fetched.tag = "Err")
    /\ pc' = after_refresh(refresh_all_ret(fetched, fetched))
    /\ CallReturns(app)
    /\ UNCHANGED <<storeVars, svid_bundle, shutdown, app, seen, now, op>>

\* client().refresh_all() called by the application
AppRefreshAll ==
    /\ app = "none"
    /\ app' = "refresh_svid"
    /\ CallStarts(pc)
    /\ UNCHANGED <<storeVars, bundles, svid_bundle, shutdown, pc, task_failed, now, op>>

AppRefreshSvid(fetched) ==
    /\ app = "refresh_svid"
    /\ svid_bundle' = refresh_x509_svid(svid_bundle, fetched)
    /\ app' = "refresh_bundles"
    /\ UNCHANGED <<storeVars, bundles, shutdown, pc, started, seen, task_failed,
                   now, op>>

AppRefreshBundles(fetched) ==
    /\ app = "refresh_bundles"
    /\ bundles' = refresh_trust_bundles(bundles, fetched)
    /\ app' = "none"
    /\ CallReturns(pc)
    /\ UNCHANGED <<storeVars, svid_bundle, shutdown, pc, seen, task_failed, now, op>>

\* ManagedWorkloadClient::shutdown
Shutdown ==
    /\ ~shutdown
    /\ shutdown' = TRUE
    /\ UNCHANGED <<storeVars, bundles, svid_bundle, pc, app, started, seen,
                   task_failed, now, op>>

\* A reader calls get_svid_bundle and get_trust_bundle, one right after the
\* other, while a refresh_all is in flight
Read ==
    /\ InFlight(pc) \/ InFlight(app)
    /\ seen' = [svid_bundle |-> get_svid_bundle(svid_bundle),
                trust_bundle |-> [d \in {ExampleOrg, PartnerOrg} |->
                                     get_trust_bundle(bundles, d)]]
    /\ UNCHANGED <<storeVars, bundles, svid_bundle, shutdown, pc, app, started,
                   task_failed, now, op>>

\* Utc::now() advances
ClockTick ==
    /\ now < MaxTime
    /\ now' = now + 1
    /\ UNCHANGED <<storeVars, bundles, svid_bundle, shutdown, pc, app, started,
                   seen, task_failed, op>>

TaskStep ==
    \/ IntervalTick
    \/ ReadShutdown
    \/ CheckRotation
    \/ \E fetched \in fetch_x509_svid : TaskRefreshSvid(fetched)
    \/ \E fetched \in fetch_bundles : TaskRefreshBundles(fetched)

NextWorkload ==
    \/ TaskStep
    \/ AppRefreshAll
    \/ \E fetched \in fetch_x509_svid : AppRefreshSvid(fetched)
    \/ \E fetched \in fetch_bundles : AppRefreshBundles(fetched)
    \/ Shutdown
    \/ Read
    \/ ClockTick

SpecWorkload == InitWorkload /\ [][NextWorkload]_vars

\* The runtime schedules the task, the timer keeps firing and every fetch
\* returns
FairWorkload == SpecWorkload /\ WF_vars(TaskStep)

(***************************************************************************)
(* Claims about the rotation task and refresh_all, checked under           *)
(* SpecWorkload and FairWorkload.                                          *)
(***************************************************************************)
\* Rotation is needed: a credential bundle is cached and its needs_rotation()
\* is true now.
RotationNeeded ==
    svid_bundle.tag = "Some" /\ SvidBundle_needs_rotation(svid_bundle.val, now)

\* C11: the rotation task follows Idle -> Tick -> (Idle | Refreshing -> Idle):
\* the task only moves along these edges, a refresh starts only from the
\* rotation check of a tick, and that check starts the refresh exactly when
\* the cached credential bundle needs rotation; otherwise the task goes back
\* to waiting without a refresh.
C11_RotationStateMachine ==
    [][/\ (pc' # pc) =>
              <<pc, pc'>> \in { <<"waiting", "ticked">>,
                                <<"ticked", "checking">>,
                                <<"ticked", "stopped">>,
                                <<"checking", "waiting">>,
                                <<"checking", "refresh_svid">>,
                                <<"refresh_svid", "refresh_bundles">>,
                                <<"refresh_bundles", "waiting">> }
       /\ (pc = "checking" /\ pc' # pc) =>
              /\ RotationNeeded => pc' = "refresh_svid"
              /\ ~RotationNeeded => pc' = "waiting"
      ]_vars

\* C11 witness: a document that did not need rotation when it was fetched
\* came to need it, and the check of a tick started a refresh.
C11_Witness ==
    /\ pc = "refresh_svid"
    /\ ~shutdown
    /\ now = 1
    /\ svid_bundle.tag = "Some"
    /\ svid_bundle.val.x509_svid.val.expiry = Day \div 2 - 1
    /\ started # NoCall
    /\ started.alone

\* C12: a failed refresh never ends the rotation task.  Whatever the fetches
\* return, the task goes from the refresh back to waiting for the next tick;
\* it stops only at a tick that reads the stop signal set; and at the check
\* after a refresh whose fetches both failed, it starts a refresh again if
\* rotation is still needed.
C12_FailedRefreshNotFatal ==
    [][/\ (pc = "refresh_bundles" /\ pc' # pc) => pc' = "waiting"
       /\ (pc' = "stopped" /\ pc # "stopped") => (pc = "ticked" /\ shutdown)
       /\ (pc = "checking" /\ pc' # pc /\ task_failed /\ RotationNeeded) =>
              pc' = "refresh_svid"
      ]_vars

\* C12 witness: both fetches of the task's refresh failed and, at a later
\* tick, the task started the refresh again.
C12_Witness ==
    /\ pc = "refresh_svid"
    /\ task_failed
    /\ ~shutdown
    /\ RotationNeeded

\* C13: shutdown is cooperative.  The rotation check of a tick is reached
\* only through the read of the stop signal at that tick; the read sends the
\* task to Stopped exactly when the signal is set; a stopped task stays
\* stopped, so no refresh starts at that tick or later; shutdown() does not
\* move the task, and a refresh in flight goes on through both fetches and
\* back to waiting.  If ticks keep firing and fetches return, the task is
\* eventually stopped once shutdown() was called.
C13_CooperativeShutdown ==
    /\ [][/\ (pc' = "checking" /\ pc' # pc) => (pc = "ticked" /\ ~shutdown)
          /\ (pc = "ticked" /\ pc' # pc) => (pc' = "stopped" <=> shutdown)
          /\ (pc = "stopped") => (pc' = "stopped")
          /\ (pc' = "refresh_svid" /\ pc' # pc) => pc = "checking"
          /\ (shutdown' # shutdown) => (shutdown' /\ pc' = pc)
          /\ (pc = "refresh_svid" /\ pc' # pc) => pc' = "refresh_bundles"
          /\ (pc = "refresh_bundles" /\ pc' # pc) => pc' = "waiting"
         ]_vars
    /\ (shutdown ~> (pc = "stopped"))
    /\ ((shutdown /\ InFlight(pc)) ~> (pc = "waiting"))

\* C13 witness: the task stopped at a tick although the cached credential
\* bundle needed rotation.
C13_Witness ==
    /\ pc = "stopped"
    /\ shutdown
    /\ RotationNeeded

\* What a reader gets from the cached state given
ReaderView(cached, store) ==
    [svid_bundle |-> get_svid_bundle(cached),
     trust_bundle |-> [d \in {ExampleOrg, PartnerOrg} |-> get_trust_bundle(store, d)]]

\* C14: a refresh replaces the cached state atomically for readers.  When a
\* refresh_all that ran alone returns, what a reader got while it ran is the
\* cached state from before the refresh or the cached state after it, never
\* the new document with the old trust bundles.
C14_RefreshAtomicForReaders ==
    [][(started # NoCall /\ started' = NoCall /\ started.alone /\ seen # NoSeen) =>
          \/ seen = ReaderView(started.svid_bundle, started.bundles)
          \/ seen = ReaderView(svid_bundle', bundles')
      ]_vars

(***************************************************************************)
(* X509Svid and SvidBundle values as a state machine: a document is        *)
(* constructed, then validated, asked whether it needs rotation and put    *)
(* in a bundle with JWT documents, while time passes.                      *)
(***************************************************************************)
\* Identities handed to X509Svid::new: SpiffeId::new returns all of them
RootPathId == SpiffeId_new(ExampleOrg, <<Slash>>).val
DotDotId == SpiffeId_new(ExampleOrg, <<Slash, "..", Slash, "etc">>).val
SvidIds == {WebId, RootPathId, DotDotId}

\* Expiry times of X.509 documents: past, near and far
SvidExpiries == (0..MaxTime) \cup {Day \div 2 - 1, 2 * Day}

\* JwtSvid { spiffe_id, token, expiry, audience }
JwtToken == <<"header", ".", "payload", ".", "signature">>
Audiences == { <<"api.example.org">>, <<"db.example.org">> }
JwtSvid ==
    [spiffe_id : {WebId}, token : {JwtToken}, expiry : 0..(MaxTime + 1),
     audience : {<<"api.example.org">>}]

workloadVars == <<shutdown, pc, app, started, seen, task_failed>>
mtlsVars == <<bundles, fed, bundle, verifier, config, installed, concVars>>

InitSvid ==
    /\ StoreIdle
    /\ ClientIdle
    /\ now = 0
    /\ op = NoOp

\* A run works on one document: an X509Svid is immutable once constructed
NewX509Svid(spiffe_id, cert_chain, private_key, expiry) ==
    /\ document = NoSvid
    /\ LET r == X509Svid_new(spiffe_id, cert_chain, private_key, expiry, "12345")
       IN /\ document' = IF r.tag = "Ok"
                         THEN [value |-> r.val, issued_at |-> now]
                         ELSE document
          /\ op' = [name |-> "X509Svid::new", spiffe_id |-> spiffe_id,
                    cert_chain |-> cert_chain, private_key |-> private_key,
                    ret |-> r]
    /\ UNCHANGED <<mtlsVars, workloadVars, identity, svid_bundle, now>>

ValidateSvid ==
    /\ document # NoSvid
    /\ op' = [name |-> "X509Svid::validate", at |-> now,
              ret |-> X509Svid_validate(document.value, now)]
    /\ UNCHANGED <<mtlsVars, workloadVars, identity, document, svid_bundle, now>>

SvidNeedsRotation ==
    /\ document # NoSvid
    /\ op' = [name |-> "X509Svid::needs_rotation", at |-> now,
              ret |-> X509Svid_needs_rotation(document.value, now)]
    /\ UNCHANGED <<mtlsVars, workloadVars, identity, document, svid_bundle, now>>

LeafCert ==
    /\ document # NoSvid
    /\ op' = [name |-> "X509Svid::leaf_cert", ret |-> leaf_cert(document.value)]
    /\ UNCHANGED <<mtlsVars, workloadVars, identity, document, svid_bundle, now>>

ConfigFromSvid(trust_bundle) ==
    /\ document # NoSvid
    /\ op' = [name |-> "MtlsConfig::from_svid", at |-> now,
              ret |-> [tag |-> from_svid(document.value, trust_bundle, now).tag]]
    /\ UNCHANGED <<mtlsVars, workloadVars, identity, document, svid_bundle, now>>

NewSvidBundle(with_document) ==
    /\ with_document => document # NoSvid
    /\ svid_bundle' = Some(SvidBundle_new(IF with_document THEN Some(document.value)
                                          ELSE None))
    /\ op' = [name |-> "SvidBundle::new"]
    /\ UNCHANGED <<mtlsVars, workloadVars, identity, document, now>>

AddJwtSvid(audience, jwt_svid) ==
    /\ svid_bundle # None
    /\ svid_bundle' = Some(add_jwt_svid(svid_bundle.val, audience, jwt_svid))
    /\ op' = [name |-> "SvidBundle::add_jwt_svid"]
    /\ UNCHANGED <<mtlsVars, workloadVars, identity, document, now>>

BundleNeedsRotation ==
    /\ svid_bundle # None
    /\ op' = [name |-> "SvidBundle::needs_rotation", at |-> now,
              ret |-> SvidBundle_needs_rotation(svid_bundle.val, now)]
    /\ UNCHANGED <<mtlsVars, workloadVars, identity, document, svid_bundle, now>>

NextSvid ==
    \/ \E spiffe_id \in SvidIds, cert_chain \in {<<>>, <<LeafA>>, <<LeafA, RootA>>},
          private_key \in {<<>>, KeyA}, expiry \in SvidExpiries :
              NewX509Svid(spiffe_id, cert_chain, private_key, expiry)
    \/ ValidateSvid
    \/ SvidNeedsRotation
    \/ LeafCert
    \/ \E trust_bundle \in MtlsBundles : ConfigFromSvid(trust_bundle)
    \/ \E with_document \in BOOLEAN : NewSvidBundle(with_document)
    \/ \E a \in Audiences, jwt_svid \in JwtSvid : AddJwtSvid(a, jwt_svid)
    \/ BundleNeedsRotation
    \/ ClockTick

SpecSvid == InitSvid /\ [][NextSvid]_vars

(***************************************************************************)
(* Claims about X509Svid and SvidBundle, checked under SpecSvid.           *)
(***************************************************************************)
\* C15: X509Svid::needs_rotation() is true exactly when the time left to
\* expiry is below one third of the document's lifetime, the span from its
\* issuance to its expiry.
C15_NeedsRotationBelowThirdOfLifetime ==
    (op.name = "X509Svid::needs_rotation"
        /\ document.issued_at < document.value.expiry) =>
        (op.ret <=> 3 * (document.value.expiry - op.at)
                        < document.value.expiry - document.issued_at)

\* C16: SvidBundle::needs_rotation() is the disjunction of "an X.509 document
\* is present and needs rotation" and "some JWT document has expired"; a JWT
\* document that is near its expiry but not past it does not count.
C16_BundleNeedsRotationDisjunction ==
    (op.name = "SvidBundle::needs_rotation") =>
        (op.ret <=>
            \/ /\ svid_bundle.val.x509_svid.tag = "Some"
               /\ X509Svid_needs_rotation(svid_bundle.val.x509_svid.val, op.at)
            \/ \E a \in DOMAIN svid_bundle.val.jwt_svids :
                  op.at > svid_bundle.val.jwt_svids[a].expiry)

\* C16 witness: the bundle holds an X.509 document far from its expiry and a
\* JWT document in its last hour, and needs no rotation.
C16_Witness ==
    /\ op.name = "SvidBundle::needs_rotation"
    /\ ~op.ret
    /\ svid_bundle.val.x509_svid.tag = "Some"
    /\ \E a \in DOMAIN svid_bundle.val.jwt_svids :
          svid_bundle.val.jwt_svids[a].expiry - op.at = 0

\* C17: validate() of a document whose expiry is strictly before the current
\* time fails with the expired-credential error (the code's
\* Error::ValidationError) before the identity is looked at; otherwise its
\* result is that of the identity's validation.  MtlsConfig::from_svid
\* fails on a document that has expired.
C17_ExpiredDocumentFailsValidation ==
    /\ (op.name = "X509Svid::validate") =>
          IF op.at > document.value.expiry
          THEN op.ret.tag = "Err" /\ op.ret.kind = "ValidationError"
          ELSE op.ret = SpiffeId_validate(document.value.spiffe_id)
    /\ (op.name = "MtlsConfig::from_svid" /\ op.at > document.value.expiry) =>
          op.ret.tag = "Err"

\* C17 witness: a document that has expired since it was constructed was
\* refused by from_svid.
C17_Witness ==
    /\ op.name = "MtlsConfig::from_svid"
    /\ op.ret.tag = "Err"
    /\ document.issued_at <= document.value.expiry
    /\ op.at > document.value.expiry

\* C20, as claimed: X509Svid::new fails with the document error (the code's
\* Error::X509Error) whenever the chain is empty, the key is empty or the
\* identity fails validation, and returns no value then; every X509Svid has
\* a non-empty chain, a non-empty key and an identity that validates.
C20_NewFailsWithDocumentError ==
    /\ (op.name = "X509Svid::new") =>
          /\ (\/ op.cert_chain = <<>>
              \/ op.private_key = <<>>
              \/ SpiffeId_validate(op.spiffe_id).tag = "Err") =>
                 /\ op.ret.tag = "Err"
                 /\ op.ret.kind = "X509Error"
                 /\ document = NoSvid
    /\ (document # NoSvid) =>
          /\ document.value.cert_chain # <<>>
          /\ document.value.private_key # <<>>
          /\ SpiffeId_validate(document.value.spiffe_id) = Ok(Unit)

\* C20, amended: X509Svid::new fails with the document error when the chain
\* or the key is empty, and with the identity's own validation error
\* (Error::InvalidSpiffeId) when both are non-empty and the identity fails
\* validation; a failed call returns no value, any other call returns the
\* document; every X509Svid has a non-empty chain (so a leaf), a non-empty
\* key and an identity that validates.
C20_NewFailsOrIsWellFormed ==
    /\ (op.name = "X509Svid::new") =>
          /\ (op.cert_chain = <<>> \/ op.private_key = <<>>) =>
                 /\ op.ret.tag = "Err"
                 /\ op.ret.kind = "X509Error"
          /\ (/\ op.cert_chain # <<>>
              /\ op.private_key # <<>>
              /\ SpiffeId_validate(op.spiffe_id).tag = "Err") =>
                 /\ op.ret.tag = "Err"
                 /\ op.ret.kind = "InvalidSpiffeId"
          /\ (op.ret.tag = "Err") => document = NoSvid
          /\ (/\ op.cert_chain # <<>>
              /\ op.private_key # <<>>
              /\ SpiffeId_validate(op.spiffe_id).tag = "Ok") =>
                 /\ op.ret.tag = "Ok"
                 /\ document # NoSvid
                 /\ document.value = op.ret.val
    /\ (document # NoSvid) =>
          /\ Len(document.value.cert_chain) >= 1
          /\ leaf_cert(document.value) = Head(document.value.cert_chain)
          /\ document.value.private_key # <<>>
          /\ SpiffeId_validate(document.value.spiffe_id) = Ok(Unit)

\* C20 witness: a chain and a key were given with an identity whose path is
\* "/", and no document was returned.
C20_Witness ==
    /\ op.name = "X509Svid::new"
    /\ op.spiffe_id = RootPathId
    /\ op.cert_chain = <<LeafA>>
    /\ op.private_key = KeyA
    /\ op.ret.tag = "Err"
    /\ document = NoSvid

(***************************************************************************)
(* SpiffeId as a state machine: identities are constructed with            *)
(* SpiffeId::new or SpiffeId::parse from the inputs below, and the last    *)
(* one returned is validated, asked for its trust domain, and written out  *)
(* and parsed again.                                                       *)
(***************************************************************************)
\* Trust domains given to SpiffeId::new and is_member_of
IdDomains ==
    { EmptyStr, ExampleOrg, PartnerOrg,
      <<"example.org", Colon, "8080">>, <<"example.org", Slash, "x">> }

\* Paths given to SpiffeId::new
IdPaths ==
    { EmptyStr, <<Slash>>, <<"service">>, <<Slash, "service">>,
      <<Slash, "service", Slash, "web">>, <<"service", Slash, "web">>,
      <<Slash, DotDot, Slash, "etc">>, <<Slash, "service", Slash, DotDot>>,
      <<Slash, Dot, Slash, "service">>, <<Slash, "a", DotDot, "b">> }

\* Texts given to SpiffeId::parse
IdTexts ==
    { HttpScheme \o ExampleOrg \o <<Slash, "service">>,
      SpiffeScheme,
      SpiffeScheme \o ExampleOrg,
      SpiffeScheme \o ExampleOrg \o <<Slash>>,
      SpiffeScheme \o ExampleOrg \o <<Slash, "service", Slash, "web">>,
      SpiffeScheme \o ExampleOrg \o <<Colon, "8080", Slash, "service">>,
      SpiffeScheme \o ExampleOrg \o <<Colon, "web", Slash, "service">>,
      SpiffeScheme \o ExampleOrg \o <<Slash, DotDot, Slash, "etc">>,
      SpiffeScheme \o ExampleOrg \o <<Slash, "a", DotDot, "b">>,
      ExampleOrg \o <<Slash, "service">> }

InitId ==
    /\ StoreIdle
    /\ ClientIdle
    /\ now = 0
    /\ op = NoOp

\* SpiffeId::new(trust_domain, path)
NewSpiffeId(trust_domain, path) ==
    LET ret == SpiffeId_new(trust_domain, path)
    IN /\ op' = [name |-> "SpiffeId::new", trust_domain |-> trust_domain,
                 path |-> path, ret |-> ret]
       /\ identity' = IF ret.tag = "Ok"
                      THEN [value |-> ret.val, by |-> "new",
                            trust_domain |-> trust_domain, path |-> path]
                      ELSE identity
       /\ UNCHANGED <<mtlsVars, workloadVars, document, svid_bundle, now>>

\* SpiffeId::parse(s)
ParseSpiffeId(s) ==
    LET ret == SpiffeId_parse(s)
    IN /\ op' = [name |-> "SpiffeId::parse", s |-> s, ret |-> ret]
       /\ identity' = IF ret.tag = "Ok"
                      THEN [value |-> ret.val, by |-> "parse", s |-> s]
                      ELSE identity
       /\ UNCHANGED <<mtlsVars, workloadVars, document, svid_bundle, now>>

\* id.validate()
ValidateIdentity ==
    /\ identity # NoId
    /\ op' = [name |-> "SpiffeId::validate", self |-> identity.value,
              ret |-> SpiffeId_validate(identity.value)]
    /\ UNCHANGED <<mtlsVars, workloadVars, identity, document, svid_bundle, now>>

\* id.is_member_of(trust_domain)
IsMemberOf(trust_domain) ==
    /\ identity # NoId
    /\ op' = [name |-> "SpiffeId::is_member_of", self |-> identity.value,
              trust_domain |-> trust_domain,
              ret |-> is_member_of(identity.value, trust_domain)]
    /\ UNCHANGED <<mtlsVars, workloadVars, identity, document, svid_bundle, now>>

\* SpiffeId::parse(id.to_string())
DisplayThenParse ==
    /\ identity # NoId
    /\ LET text == SpiffeId_to_string(identity.value)
       IN op' = [name |-> "to_string/parse", self |-> identity.value,
                 text |-> text, ret |-> SpiffeId_parse(text)]
    /\ UNCHANGED <<mtlsVars, workloadVars, identity, document, svid_bundle, now>>

NextId ==
    \/ \E trust_domain \in IdDomains, path \in IdPaths :
           NewSpiffeId(trust_domain, path)
    \/ \E s \in IdTexts : ParseSpiffeId(s)
    \/ ValidateIdentity
    \/ \E trust_domain \in IdDomains : IsMemberOf(trust_domain)
    \/ DisplayThenParse

SpecId == InitId /\ [][NextId]_vars

(***************************************************************************)
(* Claims about SpiffeId, checked under SpecId.                            *)
(***************************************************************************)
\* C18: for every (domain, path) that SpiffeId::new accepted, the text form
\* of the identity is spiffe://<domain><path with "/" put in front when it
\* was missing>, and SpiffeId::parse of that text returns an identity with
\* that trust domain and that path, equal to the one constructed.
C18_NewTextParseRoundTrip ==
    (op.name = "to_string/parse" /\ identity.by = "new") =>
        LET normalized == IF starts_with(identity.path, <<Slash>>)
                          THEN identity.path
                          ELSE <<Slash>> \o identity.path
        IN /\ op.text = SpiffeScheme \o identity.trust_domain \o normalized
           /\ op.ret.tag = "Ok"
           /\ op.ret.val.trust_domain = identity.trust_domain
           /\ op.ret.val.path = normalized
           /\ op.ret.val = identity.value

\* C19: every identity that SpiffeId::new or SpiffeId::parse returned has a
\* non-empty trust domain without "/" and ":", a non-empty path that begins
\* with "/" and has no ".." segment, and validate() succeeds on it.
C19_ConstructedIdentityIsValid ==
    identity # NoId =>
        LET id == identity.value
        IN /\ id.trust_domain # EmptyStr
           /\ ~contains(id.trust_domain, Slash)
           /\ ~contains(id.trust_domain, Colon)
           /\ id.path # EmptyStr
           /\ starts_with(id.path, <<Slash>>)
           /\ \A i \in 1..Len(path_segments(id.path)) :
                  path_segments(id.path)[i] # <<DotDot>>
           /\ SpiffeId_validate(id).tag = "Ok"

(***************************************************************************)
(* Further claims about the bundle store, checked under Spec.              *)
(***************************************************************************)
\* Every entry of a store is keyed by its bundle's trust domain and its
\* bundle has a non-empty domain, a certificate, and no empty certificate.
StoreWellFormed(m) ==
    \A d \in DOMAIN m : m[d].trust_domain = d /\ ~FailsValidation(m[d])

\* A step leaves the entries of every domain but d as they were.
OthersKept(d) ==
    /\ DOMAIN bundles' \ {d} = DOMAIN bundles \ {d}
    /\ \A e \in DOMAIN bundles \ {d} : bundles'[e] = bundles[e]

\* C21: in every reachable state each entry of a TrustBundleStore is keyed
\* by the stored bundle's own trust_domain and every stored bundle passes
\* validate; get_bundle(d) returns the bundle most recently accepted for d
\* (an accepted set_bundle or update_if_newer makes it the incoming bundle,
\* a refused call leaves the map as it was), or nothing after
\* remove_bundle(d).
C21_StoreKeyedAndValid ==
    /\ [](StoreWellFormed(bundles) /\ (fed # NoFed => StoreWellFormed(fed.store)))
    /\ [][/\ \A b \in IncomingBundles :
               /\ (op'.name = "set_bundle" /\ op'.ret.tag = "Ok" /\ SetBundle(b)) =>
                      /\ get_bundle(bundles', b.trust_domain) = Some(b)
                      /\ OthersKept(b.trust_domain)
               /\ (op'.name = "update_if_newer" /\ op'.ret.tag = "Ok"
                       /\ op'.ret.val /\ UpdateIfNewer(b)) =>
                      /\ get_bundle(bundles', b.trust_domain) = Some(b)
                      /\ OthersKept(b.trust_domain)
          /\ (op'.name = "set_bundle" /\ op'.ret.tag = "Err") => bundles' = bundles
          /\ (op'.name = "update_if_newer"
                  /\ (op'.ret.tag = "Err" \/ ~op'.ret.val)) => bundles' = bundles
          /\ \A d \in Domains :
               (op'.name = "remove_bundle" /\ RemoveBundle(d)) =>
                   /\ get_bundle(bundles', d) = None
                   /\ OthersKept(d)]_vars

\* C21 witness: two domains are stored, each under its own key, and the
\* last call was an update_if_newer that was accepted.
C21_Witness ==
    /\ DOMAIN bundles = {ExampleOrg, PartnerOrg}
    /\ bundles[ExampleOrg].sequence_number = 1
    /\ bundles[PartnerOrg].certificates = <<CertB, CertA>>
    /\ op.name = "update_if_newer"
    /\ op.ret.tag = "Ok"
    /\ op.ret.val

(***************************************************************************)
(* TrustBundle::add_certificate as a state machine: a bundle built by      *)
(* with_sequence with any sequence number is given certificates to add    *)
(* while the clock advances.                                               *)
(***************************************************************************)
\* Certificates given to add_certificate
AddedCerts == {<<>>, CertA, CertB}

InitCert ==
    /\ bundles = EmptyMap
    /\ fed = NoFed
    /\ bundle \in {with_sequence(d, certs, n, 0) :
                       d \in Domains, certs \in CertLists, n \in 0..U64_MAX}
    /\ verifier = NoVerifier
    /\ config = NoConfig
    /\ installed = NoInstall
    /\ now = 0
    /\ op = NoOp
    /\ ClientIdle

\* bundle.add_certificate(cert); nothing is called after a panic
AddCertificate(cert, overflow_checks) ==
    /\ op.name = "add_certificate" => op.ret.tag # "Panic"
    /\ Len(bundle.certificates) < MaxCerts
    /\ bundle' = add_certificate(bundle, cert, now, overflow_checks).self
    /\ op' = [name |-> "add_certificate", self |-> bundle, cert |-> cert,
              ret |-> add_certificate(bundle, cert, now, overflow_checks).ret]
    /\ UNCHANGED <<clientVars, bundles, fed, verifier, config, installed, now>>

\* Utc::now() advances
CertClockTick ==
    /\ now < MaxTime
    /\ now' = now + 1
    /\ UNCHANGED <<clientVars, bundles, fed, bundle, verifier, config, installed, op>>

NextCert ==
    \/ \E cert \in AddedCerts, overflow_checks \in BOOLEAN :
           AddCertificate(cert, overflow_checks)
    \/ CertClockTick

SpecCert == InitCert /\ [][NextCert]_vars

\* C22: add_certificate with an empty certificate fails with
\* TrustBundleError and leaves certificates and sequence_number unchanged;
\* with a non-empty certificate it appends exactly that certificate after
\* the existing ones and increases sequence_number by exactly 1, whatever
\* the starting sequence_number.
C22_AddCertificateIncrementsByOne ==
    op.name = "add_certificate" =>
        IF op.cert = <<>>
        THEN /\ op.ret.tag = "Err"
             /\ op.ret.kind = "TrustBundleError"
             /\ bundle.certificates = op.self.certificates
             /\ bundle.sequence_number = op.self.sequence_number
        ELSE /\ bundle.certificates = Append(op.self.certificates, op.cert)
             /\ bundle.sequence_number = op.self.sequence_number + 1

(***************************************************************************)
(* SpiffeChannelBuilder (spire-client, transport/spiffe.rs).               *)
(***************************************************************************)
\* proto Bundle.x509_authorities of the bundles given to the builder
AuthorityLists == { <<>>, <<RootA>>, <<RootA, RootB>> }

\* SpiffeChannelBuilder::new(trust_domain, bundle), and with_client_svid
SpiffeChannelBuilder ==
    [trust_domain : {ExampleOrg, PartnerOrg},
     bundle : [trust_domain : {ExampleOrg}, x509_authorities : AuthorityLists],
     require_client_cert : {FALSE},
     client_svid : {None}]
    \cup
    [trust_domain : {ExampleOrg, PartnerOrg},
     bundle : [trust_domain : {ExampleOrg}, x509_authorities : AuthorityLists],
     require_client_cert : {TRUE},
     client_svid : {Some(<<LeafA, KeyA>>)}]

\* The roots the TLS library trusts without being given any: none, or those
\* of the platform, according to the features it was built with
PlatformRoots == { {}, {OtherRoot} }

\* The leaf certificates servers present: those of the verifier model and
\* ones that carry the trust domain as a DNS name
ServerCertificates ==
    Certificates
    \cup [parses : {TRUE}, san : {"present"},
          general_names : { <<DNS(ExampleOrg)>>,
                            <<DNS(ExampleOrg),
                              URI(SpiffeScheme \o ExampleOrg \o <<Slash, "svc">>)>> },
          issuer : Issuers, expired : BOOLEAN]

\* SpiffeChannelBuilder::extract_ca_certificates
extract_ca_certificates(self) == Ok(self.bundle.x509_authorities)

\* SpiffeChannelBuilder::build_tls_config: the ClientTlsConfig returned.  The
\* extracted certificates and the SpiffeCertVerifier built from an empty
\* RootCertStore are bound to _ca_certs and _verifier and dropped: the
\* configuration is given no CA certificate and no verifier of its own.
build_tls_config(self) ==
    Ok([domain_name |-> self.trust_domain,
        identity |-> self.client_svid,
        ca_certificates |-> {},
        verifier |-> None])

\* Channel::connect under a ClientTlsConfig: the handshake verifies the
\* server's leaf against the CA certificates of the configuration and the
\* platform's, for the name domain_name
tls_connect(tls, platform_roots, end_entity) ==
    IF tls.ca_certificates \cup platform_roots = {}
    THEN Err("transport", "UnknownIssuer")
    ELSE LET r == WebPki_verify_server_cert(
                      [roots |-> tls.ca_certificates \cup platform_roots],
                      end_entity, tls.domain_name)
         IN IF r.tag = "Err" THEN Err("transport", r.msg) ELSE Ok("Channel")

\* SpiffeChannelBuilder::connect
connect(self, platform_roots, end_entity) ==
    IF build_tls_config(self).tag = "Err" THEN build_tls_config(self)
    ELSE tls_connect(build_tls_config(self).val, platform_roots, end_entity)

InitChannel ==
    /\ StoreIdle
    /\ ClientIdle
    /\ now = 0
    /\ op = NoOp

\* builder.connect(endpoint), to a server that presents end_entity: one
\* connection per run
Connect(self, platform_roots, end_entity) ==
    /\ op = NoOp
    /\ op' = [name |-> "connect", self |-> self, end_entity |-> end_entity,
              tls_config |-> build_tls_config(self).val,
              ret |-> connect(self, platform_roots, end_entity)]
    /\ UNCHANGED <<clientVars, bundles, fed, bundle, verifier, config, installed, now>>

NextChannel ==
    \E self \in SpiffeChannelBuilder, platform_roots \in PlatformRoots,
       end_entity \in ServerCertificates :
        Connect(self, platform_roots, end_entity)

SpecChannel == InitChannel /\ [][NextChannel]_vars

\* C23: the TLS configuration built by SpiffeChannelBuilder verifies the
\* server through the SPIFFE peer verifier configured with the builder's
\* trust domain and with the X.509 authorities of the builder's bundle as
\* roots of trust; a server whose chain does not lead to one of these
\* authorities, or whose identity is outside the trust domain, does not get
\* a connection.
C23_ChannelVerifiesPeerIdentity ==
    op.name = "connect" =>
        LET authorities == {op.self.bundle.x509_authorities[i] :
                                i \in 1..Len(op.self.bundle.x509_authorities)}
        IN /\ op.tls_config.verifier =
                  Some([trust_domain |-> op.self.trust_domain,
                        root_certs |-> authorities])
           /\ op.ret.tag = "Ok" =>
                  /\ ChainTrusted(op.end_entity, authorities)
                  /\ IdentityInDomain(op.end_entity, op.self.trust_domain)

(***************************************************************************)
(* The domain check of the peer verifier (validate_spiffe_id,              *)
(* transport/spiffe.rs) applied to identity URIs as they may be written in *)
(* a certificate.                                                          *)
(***************************************************************************)
\* What stands where the trust domain of a URI is expected: nothing, a
\* domain, or a domain with another as its prefix or suffix
UriDomains ==
    { EmptyStr, ExampleOrg, PartnerOrg,
      ExampleOrg \o <<".evil.com">>, <<"evil.">> \o ExampleOrg }

\* What follows it
UriRests == { EmptyStr, <<Slash>>, <<Slash, "svc">>, <<Slash, "svc", Slash, "web">> }

\* The URIs checked
CheckedUris ==
    { scheme \o d \o rest :
          scheme \in {SpiffeScheme, HttpScheme, EmptyStr},
          d \in UriDomains, rest \in UriRests }

\* The trust domains a verification context is configured with
ExpectedDomains == {ExampleOrg, PartnerOrg, EmptyStr}

InitDomainCheck ==
    /\ StoreIdle
    /\ ClientIdle
    /\ now = 0
    /\ op = NoOp

\* validate_spiffe_id(spiffe_id, expected_trust_domain)
ValidateSpiffeIdStr(spiffe_id, expected_trust_domain) ==
    /\ op' = [name |-> "validate_spiffe_id_str", spiffe_id |-> spiffe_id,
              expected |-> expected_trust_domain,
              ret |-> validate_spiffe_id_str(spiffe_id, expected_trust_domain)]
    /\ UNCHANGED <<clientVars, bundles, fed, bundle, verifier, config, installed, now>>

NextDomainCheck ==
    \E spiffe_id \in CheckedUris, expected_trust_domain \in ExpectedDomains :
        ValidateSpiffeIdStr(spiffe_id, expected_trust_domain)

SpecDomainCheck == InitDomainCheck /\ [][NextDomainCheck]_vars

\* The URI is spiffe://<domain>/<rest> with the given domain.
HasDomainForm(uri, trust_domain) ==
    /\ Len(uri) >= 1
    /\ uri[1] = "spiffe://"
    /\ \E i \in 2..Len(uri) : uri[i] = "/"
    /\ DomainOfUri(uri) = trust_domain

\* C24: the domain check accepts a URI exactly when it has the form
\* spiffe://<domain>/<rest> with <domain> the configured trust domain; every
\* other URI (another domain, one that has the expected domain as a prefix
\* or suffix, or no spiffe:// prefix) is rejected with an error that carries
\* the expected and the actual domain.
C24_DomainCheckExact ==
    op.name = "validate_spiffe_id_str" =>
        /\ op.ret.tag = "Ok" <=> HasDomainForm(op.spiffe_id, op.expected)
        /\ op.ret.tag = "Err" =>
               \E actual \in UriDomains \cup {op.spiffe_id} :
                   op.ret.msg = <<"Trust domain mismatch: expected ">>
                                    \o op.expected \o <<", got ">> \o actual

(***************************************************************************)
(* A TrustBundleStore shared by threads (trust_bundle.rs: the map is in an *)
(* Arc<parking_lot::RwLock<..>>).  Each thread calls update_if_newer once, *)
(* step by step: validate, take the write lock, look the domain up and     *)
(* compare, insert, release the lock.  Readers call get_bundle under the   *)
(* read lock.                                                              *)
(***************************************************************************)
Threads == 1..NumThreads

\* The bundles the threads submit, all for one domain
SubmittedBundles ==
    {with_sequence(ExampleOrg, certs, n, 0) :
         certs \in {<<>>, <<CertA>>, <<CertB, CertA>>}, n \in SeqNums}

\* The store before the threads start: empty, or a bundle for the domain
InitialStores ==
    {EmptyMap}
    \cup {insert(EmptyMap, ExampleOrg, with_sequence(ExampleOrg, <<CertA, CertB>>, n, 0)) :
              n \in SeqNums}

\* RwLock::write returns when no writer holds the lock (readers hold it only
\* within one step)
write_lock_shared(l) == TRUE
write_lock_free(l) == l = None

\* RwLock::read returns when no writer holds the lock
read_lock_free(l) == l = None

InitConcurrent ==
    /\ bundles \in InitialStores
    /\ fed = NoFed
    /\ bundle = NoBundle
    /\ verifier = NoVerifier
    /\ config = NoConfig
    /\ installed = NoInstall
    /\ now = 0
    /\ op = NoOp
    /\ identity = NoId
    /\ document = NoSvid
    /\ svid_bundle = None
    /\ shutdown = FALSE
    /\ pc = "none"
    /\ app = "none"
    /\ started = NoCall
    /\ seen = NoSeen
    /\ task_failed = FALSE
    /\ threads = [t \in Threads |-> [pc |-> "idle"]]
    /\ lock = None
    /\ initial = get_bundle(bundles, ExampleOrg)

otherVars == <<fed, bundle, verifier, config, installed, now, identity, document,
               svid_bundle, shutdown, pc, app, started, seen, task_failed>>

\* update_if_newer(b) is called by thread t: bundle.validate()?
ThreadCalls(t, b) ==
    /\ threads[t].pc = "idle"
    /\ threads' = [threads EXCEPT ![t] =
                       IF validate(b).tag = "Err"
                       THEN [pc |-> "done", bundle |-> b, ret |-> validate(b)]
                       ELSE [pc |-> "write", bundle |-> b]]
    /\ UNCHANGED <<otherVars, bundles, lock, initial, op>>

\* let mut bundles = self.bundles.write()
ThreadLocks(t) ==
    /\ threads[t].pc = "write"
    /\ write_lock_free(lock)
    /\ lock' = Some(t)
    /\ threads' = [threads EXCEPT ![t].pc = "get"]
    /\ UNCHANGED <<otherVars, bundles, initial, op>>

\* if let Some(existing) = bundles.get(&trust_domain) / bundle.is_newer_than(existing)
ThreadCompares(t) ==
    /\ threads[t].pc = "get"
    /\ LET b == threads[t].bundle
           existing == get_bundle(bundles, b.trust_domain)
       IN threads' = [threads EXCEPT ![t] =
                          IF existing = None \/ is_newer_than(b, existing.val)
                          THEN [pc |-> "insert", bundle |-> b]
                          ELSE [pc |-> "unlock", bundle |-> b, updated |-> FALSE]]
    /\ UNCHANGED <<otherVars, bundles, lock, initial, op>>

\* bundles.insert(trust_domain.clone(), bundle)
ThreadInserts(t) ==
    /\ threads[t].pc = "insert"
    /\ bundles' = insert(bundles, threads[t].bundle.trust_domain, threads[t].bundle)
    /\ threads' = [threads EXCEPT ![t] =
                       [pc |-> "unlock", bundle |-> threads[t].bundle, updated |-> TRUE]]
    /\ UNCHANGED <<otherVars, lock, initial, op>>

\* Ok(updated): the guard is dropped
ThreadReturns(t) ==
    /\ threads[t].pc = "unlock"
    /\ lock' = IF lock = Some(t) THEN None ELSE lock
    /\ threads' = [threads EXCEPT ![t] =
                       [pc |-> "done", bundle |-> threads[t].bundle,
                        ret |-> Ok(threads[t].updated)]]
    /\ UNCHANGED <<otherVars, bundles, initial, op>>

\* get_bundle(trust_domain), by a reader
ReaderGets(trust_domain) ==
    /\ read_lock_free(lock)
    /\ \E t \in Threads : threads[t].pc # "done"
    /\ op' = [name |-> "get_bundle", ret |-> get_bundle(bundles, trust_domain)]
    /\ UNCHANGED <<otherVars, bundles, threads, lock, initial>>

NextConcurrent ==
    \/ \E t \in Threads, b \in SubmittedBundles : ThreadCalls(t, b)
    \/ \E t \in Threads : ThreadLocks(t)
    \/ \E t \in Threads : ThreadCompares(t)
    \/ \E t \in Threads : ThreadInserts(t)
    \/ \E t \in Threads : ThreadReturns(t)
    \/ ReaderGets(ExampleOrg)

SpecConcurrent == InitConcurrent /\ [][NextConcurrent]_vars

\* The sequence number stored for the domain, -1 when there is none.
StoredSeq(m) ==
    IF ExampleOrg \in DOMAIN m THEN m[ExampleOrg].sequence_number ELSE -1

\* The valid bundles the threads have submitted.
Submitted ==
    {threads[t].bundle : t \in {u \in Threads : threads[u].pc # "idle"
                                                /\ ~FailsValidation(threads[u].bundle)}}

\* The bundles that may be stored: the initial one and the submitted ones.
Candidates == Submitted \cup (IF initial = None THEN {} ELSE {initial.val})

\* C25: the version check and the replacement of update_if_newer are one
\* atomic step: with threads calling it concurrently with valid bundles for
\* one domain, the bundle stored when all have returned is one with the
\* highest sequence number among the initial and the submitted bundles, the
\* stored sequence number never decreases, and a concurrent get_bundle
\* returns the initial bundle or one of the submitted bundles, whole.
C25_UpdateIfNewerAtomic ==
    /\ []((\A t \in Threads : threads[t].pc = "done") =>
              /\ (Candidates = {} <=> ExampleOrg \notin DOMAIN bundles)
              /\ Candidates # {} =>
                     /\ bundles[ExampleOrg] \in Candidates
                     /\ \A c \in Candidates :
                            bundles[ExampleOrg].sequence_number >= c.sequence_number)
    /\ [][StoredSeq(bundles') >= StoredSeq(bundles)]_vars
    /\ [](op.name = "get_bundle" =>
              IF op.ret = None THEN initial = None
              ELSE op.ret.val \in Candidates)

\* C25 witness: both threads have returned, the one that came second with
\* the lower sequence number was refused, and the higher one is stored.
C25_Witness ==
    /\ \A t \in Threads : threads[t].pc = "done"
    /\ \E t, u \in Threads :
           /\ threads[t].ret = Ok(TRUE)
           /\ threads[u].ret = Ok(FALSE)
           /\ threads[u].bundle.sequence_number < threads[t].bundle.sequence_number
           /\ bundles[ExampleOrg] = threads[t].bundle
    /\ initial = None

(***************************************************************************)
(* Further claims about the rotation task, checked under SpecWorkload.     *)
(***************************************************************************)
\* C26: while no credential bundle is cached (svid_bundle is None, as
\* WorkloadApiClient::new leaves it) the check of a tick never starts
\* refresh_all, so the task is never in a refresh with an empty cache; the
\* cache becomes non-empty only by the X.509 step of a refresh_all that the
\* application called, with a fetch that succeeded.
C26_LoopNeverFillsEmptyCache ==
    /\ [](svid_bundle = None => ~InFlight(pc))
    /\ [][/\ (pc = "checking" /\ svid_bundle = None /\ pc' # pc) => pc' = "waiting"
          /\ (svid_bundle = None /\ svid_bundle' # None) =>
                 /\ app = "refresh_svid"
                 /\ app' = "refresh_bundles"
                 /\ pc' = pc
                 /\ svid_bundle'.val.x509_svid.tag = "Some"
                 /\ svid_bundle'.val.x509_svid.val \in IssuedSvids
         ]_vars

\* C26 witness: the task is at the check of a tick with nothing cached,
\* after the X.509 fetch of the application's refresh_all failed.
C26_Witness ==
    /\ pc = "checking"
    /\ svid_bundle = None
    /\ app = "refresh_bundles"
    /\ now = 1

(***************************************************************************)
(* One refresh_all on a WorkloadApiClient, running alone, from any cached  *)
(* state: a credential bundle or none, with or without JWT documents, and  *)
(* a trust bundle store.  Its two awaits are two steps.                    *)
(***************************************************************************)
\* JWT documents in a cached bundle: one that expired an hour before the run
\* starts and one that outlives it
CachedJwts == {[j EXCEPT !.expiry = e] : j \in JwtSvid, e \in {0 - 1, MaxTime + 1}}

\* Option<SvidBundle>: the values svid_bundle may hold
CachedBundles ==
    LET plain == {SvidBundle_new(x) : x \in {None} \cup {Some(d) : d \in IssuedSvids}}
    IN {None}
       \cup {Some(b) : b \in plain}
       \cup {Some(add_jwt_svid(b, j.audience, j)) : b \in plain, j \in CachedJwts}

\* The trust bundle stores the client may hold
CachedStores ==
    {EmptyMap} \cup {store_bundles(EmptyMap, l) : l \in IssuedBundleLists}

InitRefresh ==
    /\ bundles \in CachedStores
    /\ fed = NoFed
    /\ bundle = NoBundle
    /\ verifier = NoVerifier
    /\ config = NoConfig
    /\ installed = NoInstall
    /\ identity = NoId
    /\ document = NoSvid
    /\ svid_bundle \in CachedBundles
    /\ shutdown = FALSE
    /\ pc = "none"
    /\ app = "none"
    /\ started = NoCall
    /\ seen = NoSeen
    /\ task_failed = FALSE
    /\ ConcIdle
    /\ now \in Times
    /\ op = NoOp

\* refresh_all: fetch_x509_svid().await and the store of its result
RefreshX509Step(fetched) ==
    /\ op = NoOp
    /\ svid_bundle' = refresh_x509_svid(svid_bundle, fetched)
    /\ app' = "refresh_bundles"
    /\ op' = [name |-> "refresh_all", step |-> "x509",
              before |-> [svid_bundle |-> svid_bundle, bundles |-> bundles],
              fetched_svid |-> fetched]
    /\ UNCHANGED <<storeVars, bundles, shutdown, pc, started, seen, task_failed, now>>

\* refresh_all: fetch_bundles().await, the store of its result and Ok(())
RefreshBundlesStep(fetched) ==
    /\ op.name = "refresh_all"
    /\ op.step = "x509"
    /\ bundles' = refresh_trust_bundles(bundles, fetched)
    /\ app' = "none"
    /\ op' = [name |-> "refresh_all", step |-> "returned", before |-> op.before,
              fetched_svid |-> op.fetched_svid, fetched_bundles |-> fetched,
              ret |-> refresh_all_ret(op.fetched_svid, fetched)]
    /\ UNCHANGED <<storeVars, svid_bundle, shutdown, pc, started, seen,
                   task_failed, now>>

NextRefresh ==
    \/ \E fetched \in fetch_x509_svid : RefreshX509Step(fetched)
    \/ \E fetched \in fetch_bundles : RefreshBundlesStep(fetched)

SpecRefresh == InitRefresh /\ [][NextRefresh]_vars

ExpectedBundle(m, fetched_bundles, trust_domain) ==
    LET valid == {i \in 1..Len(fetched_bundles) :
                     /\ fetched_bundles[i].trust_domain = trust_domain
                     /\ validate(fetched_bundles[i]).tag = "Ok"}
    IN IF valid = {}
       THEN get_bundle(m, trust_domain)
       ELSE Some(fetched_bundles[CHOOSE i \in valid : \A j \in valid : j <= i])

\* C28: a failed fetch_x509_svid leaves the cached credential bundle as it
\* was, a failed fetch_bundles leaves the trust bundle store as it was, a
\* fetched bundle that fails validation is skipped and the others are stored,
\* and refresh_all returns Ok(()) in each case.
C28_FailedFetchKeepsCache ==
    /\ (op.name = "refresh_all" /\ op.fetched_svid.tag = "Err") =>
          svid_bundle = op.before.svid_bundle
    /\ (op.name = "refresh_all" /\ op.step = "returned") =>
          /\ op.fetched_bundles.tag = "Err" => bundles = op.before.bundles
          /\ op.fetched_bundles.tag = "Ok" =>
                \A d \in Domains \cup DOMAIN bundles \cup DOMAIN op.before.bundles :
                    get_bundle(bundles, d)
                        = ExpectedBundle(op.before.bundles, op.fetched_bundles.val, d)
          /\ op.ret = Ok(Unit)

\* a refresh_all returned after both fetches failed, with a credential bundle
\* cached and bundles stored
C28_Witness ==
    /\ op.name = "refresh_all"
    /\ op.step = "returned"
    /\ op.fetched_svid.tag = "Err"
    /\ op.fetched_bundles.tag = "Err"
    /\ op.before.svid_bundle # None
    /\ DOMAIN op.before.bundles # {}

\* C29: when the X.509 fetch of refresh_all succeeds and a credential bundle
\* is already cached, the step replaces the bundle's x509_svid by the fetched
\* document, leaves its jwt_svids map as it was and leaves the trust bundle
\* store as it was.
C29_OnlyX509FieldReplaced ==
    (/\ op.name = "refresh_all"
     /\ op.fetched_svid.tag = "Ok"
     /\ op.before.svid_bundle # None) =>
        /\ svid_bundle.tag = "Some"
        /\ svid_bundle.val.x509_svid = Some(op.fetched_svid.val)
        /\ svid_bundle.val.jwt_svids = op.before.svid_bundle.val.jwt_svids
        /\ op.step = "x509" => bundles = op.before.bundles

\* the X.509 step has stored a fetched document in a cached bundle that holds
\* a JWT document and another X.509 document, with bundles in the store
C29_Witness ==
    /\ op.name = "refresh_all"
    /\ op.step = "x509"
    /\ op.fetched_svid.tag = "Ok"
    /\ op.before.svid_bundle # None
    /\ DOMAIN op.before.svid_bundle.val.jwt_svids # {}
    /\ op.before.svid_bundle.val.x509_svid \notin {None, Some(op.fetched_svid.val)}
    /\ DOMAIN bundles # {}

(***************************************************************************)
(* update_if_newer on a trust domain the store holds nothing for, checked  *)
(* under Spec.                                                             *)
(***************************************************************************)
\* C30: update_if_newer with a valid bundle for a trust domain that has no
\* stored bundle returns Ok(true) and stores the bundle, whatever its
\* sequence number; this includes a bundle for d offered right after
\* remove_bundle(d) with a sequence number lower than the removed bundle's.
C30_AbsentDomainAlwaysInserted ==
    [][\A b \in IncomingBundles :
          (/\ validate(b).tag = "Ok"
           /\ b.trust_domain \notin DOMAIN bundles
           /\ UpdateIfNewer(b)) =>
              /\ op'.ret = Ok(TRUE)
              /\ get_bundle(bundles', b.trust_domain) = Some(b)
              /\ OthersKept(b.trust_domain)]_vars

\* update_if_newer has accepted a bundle for example.org with sequence
\* number 0 in the call right after the remove_bundle that removed the
\* example.org bundle with sequence number 1
C30_Witness ==
    /\ op.name = "update_if_newer"
    /\ op.ret = Ok(TRUE)
    /\ op.removed.tag = "Some"
    /\ op.removed.val.trust_domain = ExampleOrg
    /\ op.removed.val.sequence_number = 1
    /\ get_bundle(bundles, ExampleOrg).tag = "Some"
    /\ bundles[ExampleOrg].sequence_number = 0
====
